---- MODULE Spec2Model ----
(***************************************************************************)
(* Worker host lifecycle of deadline_test_fixtures: the virtual-machine    *)
(* host (ec2/instance.py Instance, driven by deadline/worker.py            *)
(* EC2InstanceWorker) and the container host (deadline/worker.py           *)
(* DockerContainerWorker).  One behaviour follows one Host object of one   *)
(* variant through a bounded number of caller operations.  The code is     *)
(* single-threaded and blocking, so one operation runs at a time; pc is    *)
(* the position inside it, and every external call (SSM, EC2, S3, a        *)
(* subprocess) is one step whose outcome the environment chooses.          *)
(* The variables that count calls (dispatches, sleeps, waits, fetches,     *)
(* execs, attempts, calls) observe the running operation; they start empty *)
(* with each operation, and those of the dispatch loop are dropped with    *)
(* the loop's locals when the loop is left for the wait.                   *)
(***************************************************************************)
EXTENDS Integers, Sequences, FiniteSets, TLC

(* ------------------------------ bounds --------------------------------- *)

\* number of caller operations (start, stop, send_command, a read of
\* worker_id) in one behaviour
MaxOps == 3

\* longest list of file mappings a host is configured with
MaxFiles == 2

\* most job users a host is configured with
MaxJobUsers == 2

\* calls of BealineManager methods in one behaviour
MaxManagerOps == 4

\* queues one BealineManager adds with create_additional_queue
MaxQueues == 2

\* calls of BealineClient methods in one behaviour
MaxShimCalls == 2

(* ------------------------- program constants --------------------------- *)

NUM_RETRIES == 10

SLEEP_INTERVAL_S == 5

DEFAULT_WAIT_DELAY == 5

DEFAULT_WAIT_MAX_ATTEMPTS == 60

(* ------------------------------ values --------------------------------- *)

\* Python's None; an Optional value is <<>> (None) or <<v>>
None == <<>>

Some(v) == <<v>>

\* resource ids: the n-th instance the EC2 API launched, the n-th container
InstanceIdOf(n) == <<"i", n>>

ContainerIdOf(n) == <<"c", n>>

\* source paths of file mappings, as their components; two share a basename
Paths == << <<"a", "bar.txt">>, <<"a", "foo.txt">>, <<"b", "foo.txt">> >>

\* os.path.basename
Basename(path) == path[Len(path)]

\* the <<wait_delay, wait_max_attempts>> a caller of send_command may pass
WaitArgs == { <<None, None>>, <<Some(0), None>>, <<None, Some(0)>> }

\* error codes a ClientError of the dispatch call may carry
ClientErrorCodes == { "InvalidInstanceId", "AccessDeniedException" }

\* what one ssm_client.send_command call may do
DispatchOutcomes == { "ok", "BotoCoreError" } \cup ClientErrorCodes

\* status of an SSM command invocation; only InProgress is not terminal
TerminalStatuses == { "Success", "Failed", "TimedOut" }

CommandStatuses == TerminalStatuses \cup { "InProgress" }

\* what the command_executed waiter may do: return once the command is in
\* Success, raise WaiterError on a failure state or when it runs out of
\* attempts with the command still InProgress, or fail in another way
WaitOutcomes == CommandStatuses \cup { "BotoCoreError" }

\* response codes SSM reports for an invocation in a given status
ResponseCodes(status) ==
    IF status = "Success" THEN { 0 }
    ELSE IF status = "Failed" THEN { 1 }
    ELSE { -1 }

\* captured <<standard output, standard error>> of a command
Outputs == { <<"", "">>, <<"out", "err">> }

\* statuses get_command_invocation may report, given the status seen last:
\* a command still in progress may have finished in the meantime
StatusesAfter(status) ==
    IF status = "InProgress" THEN CommandStatuses ELSE { status }

\* responses of get_command_invocation
Invocations(status) ==
    UNION { { [Status |-> s, ResponseCode |-> c,
               StandardOutputContent |-> o[1], StandardErrorContent |-> o[2]] :
                c \in ResponseCodes(s), o \in Outputs } :
            s \in StatusesAfter(status) }

(* -------------------------- worker identifier -------------------------- *)

\* The output of the command that reads the worker id is a Python str,
\* modelled as the sequence of its characters.

\* the characters [0-9a-f] of the identifier pattern
HexLower ==
    { "0", "1", "2", "3", "4", "5", "6", "7", "8", "9",
      "a", "b", "c", "d", "e", "f" }

\* the literal prefix of the identifier pattern
WorkerPrefix == << "w", "o", "r", "k", "e", "r", "-" >>

\* the {32} of the identifier pattern
HexCount == 32

\* Rstrip with nothing removed
RstripNothing(str, chars) == str

\* str.rstrip(chars): the trailing characters that are in chars are removed
RECURSIVE Rstrip(_, _)
Rstrip(str, chars) ==
    IF str # <<>> /\ str[Len(str)] \in chars
    THEN Rstrip(SubSeq(str, 1, Len(str) - 1), chars)
    ELSE str

\* the set of characters both worker_id properties strip: "\n\r" and "\r\n"
StripChars == { "\n", "\r" }

\* Python's $ without re.MULTILINE: the end of the string, or the position
\* just before a newline that ends the string
AtDollar(str, pos) ==
    \/ pos = Len(str)
    \/ pos = Len(str) - 1 /\ str[Len(str)] = "\n"

\* ReMatch with the class [0-9a-fA-F]
ReMatchAnyCase(str) ==
    LET n == Len(WorkerPrefix)
    IN  /\ Len(str) >= n + HexCount
        /\ SubSeq(str, 1, n) = WorkerPrefix
        /\ \A j \in (n + 1)..(n + HexCount) :
              str[j] \in HexLower \cup { "A", "B", "C", "D", "E", "F" }
        /\ AtDollar(str, n + HexCount)

\* re.match(r"^worker-[0-9a-f]{32}$", str)
ReMatch(str) ==
    LET n == Len(WorkerPrefix)
    IN  /\ Len(str) >= n + HexCount
        /\ SubSeq(str, 1, n) = WorkerPrefix
        /\ \A j \in (n + 1)..(n + HexCount) : str[j] \in HexLower
        /\ AtDollar(str, n + HexCount)

\* a str of n copies of one character
Repeat(c, n) == [j \in 1..n |-> c]

\* a well-formed identifier, as the agent writes it
ValidId == WorkerPrefix \o Repeat("0", 16) \o Repeat("f", 16)

\* what the read command may print: the id followed by a newline (jq -r),
\* the id alone or followed by other line ends, "null" when the state file
\* holds no id, nothing, and strings that are close to an identifier
WorkerIdOutputs ==
    { ValidId \o << "\n" >>,
      ValidId,
      ValidId \o << "\r", "\n" >>,
      ValidId \o << "\n", "\n" >>,
      << "n", "u", "l", "l", "\n" >>,
      << >>,
      WorkerPrefix \o Repeat("A", HexCount) \o << "\n" >>,
      WorkerPrefix \o Repeat("a", HexCount - 1) \o << "\n" >>,
      WorkerPrefix \o Repeat("a", HexCount + 1) \o << "\n" >>,
      WorkerPrefix \o Repeat("a", HexCount - 1) \o << "g", "\n" >>,
      Repeat("a", HexCount) \o << "\n" >>,
      << "\n" >> \o ValidId \o << "\n" >> }

\* responses of get_command_invocation for the read command: a command
\* that succeeded printed any of outs; for one that did not, whose output
\* is never looked at, nothing or the id stand for what it printed
WorkerIdInvocations(status, outs) ==
    UNION { { [Status |-> s, ResponseCode |-> c,
               StandardOutputContent |-> o, StandardErrorContent |-> ""] :
                c \in ResponseCodes(s),
                o \in IF s = "Success" THEN outs
                      ELSE { << >>, ValidId \o << "\n" >> } } :
            s \in StatusesAfter(status) }

\* responses of get_command_invocation for a command
InvocationsFor(cmd, status) ==
    IF cmd = "worker_id" THEN WorkerIdInvocations(status, WorkerIdOutputs)
    ELSE Invocations(status)

(* --------------------------- configuration ----------------------------- *)

\* the members of a sequence at the positions in S, in order
RECURSIVE Pick(_, _)
Pick(seq, S) ==
    IF seq = <<>> THEN <<>>
    ELSE LET rest == Pick(Tail(seq), { j - 1 : j \in S \ { 1 } })
         IN  IF 1 \in S THEN <<Head(seq)>> \o rest ELSE rest

\* the source paths of the configured file mappings: up to MaxFiles paths
FileLists ==
    { Pick(Paths, S) :
        S \in { T \in SUBSET (1..Len(Paths)) : Cardinality(T) <= MaxFiles } }

\* file_mappings[path]: the destination a source path is mapped to
Dst(path) == <<"dst", path[1], path[2]>>

\* a DeadlineWorkerConfiguration, by the fields the model follows
Configuration(users, files, flag) ==
    [ job_users |-> users, file_mappings |-> files,
      no_install_service |-> flag ]

\* dataclasses.replace(config, no_install_service=value): a new object
Replace(config, value) == [config EXCEPT !.no_install_service = value]

\* DockerPostInit setting the field on the object it was given
DockerPostInitInPlace(config) ==
    [ passed |-> Replace(config, TRUE), own |-> Replace(config, TRUE) ]

\* DockerContainerWorker.__post_init__: the object the caller passed and
\* the worker's own configuration, after construction
DockerPostInit(config) ==
    [ passed |-> config, own |-> Replace(config, TRUE) ]

\* EC2InstanceWorker.__init__: the worker keeps the object it was given
WorkerInit(config) == [ passed |-> config, own |-> config ]

(* ------------------------------- state --------------------------------- *)

VARIABLES
    variant,       \* "ec2" (EC2InstanceWorker / Instance) or "docker"
    file_mappings, \* configured source paths, in order
    job_users,     \* number of configured job users
    override_ami_id, \* props.override_ami_id
    no_install_service, \* configuration.no_install_service of the worker
    caller_configuration, \* the configuration object the caller passed
    given,         \* the value of that object when the caller passed it
    opsLeft,       \* caller operations still to come
    op,            \* the caller operation running or last run
    pc,            \* position inside the running operation
    cont,          \* who called send_command: where it returns to
    outcome,       \* "none", "running", "returned" or "raised"
    error,         \* the exception that reached the caller
    calls,         \* requests and send_commands of the running operation
    idAtCall,      \* the host's resource id when the operation began
    instance_id,   \* Instance.instance_id
    launched,      \* instances the EC2 API has launched for this host
    ami_id,        \* Instance._ami_id: None while the attribute is unset
    user_data_commands, \* props.user_data_commands
    userData,      \* the UserData of the last run_instances request
    imageId,       \* the ImageId of that request: None or Some(id)
    s3,            \* keys put into the bootstrap bucket
    stageIdx,      \* files uploaded so far by the running staging loop
    released,      \* ids the host has asked to terminate or stop
    command,       \* the command of the running send_command
    waitArgs,      \* <<wait_delay, wait_max_attempts>> of that call
    i,             \* loop index of the dispatch loop
    dispatches,    \* ssm_client.send_command calls of that call
    failures,      \* InvalidInstanceId failures among them
    sleeps,        \* time.sleep calls of that call
    slept,         \* seconds slept by them
    waits,         \* ssm_waiter.wait calls: WaiterConfig and what each raised
    cmdStatus,     \* status of the dispatched command as last observed
    fetches,       \* get_command_invocation calls of that call
    fetched,       \* the response of the last one: None or Some(response)
    result,        \* what send_command returned: None or Some(CommandResult)
    container_id,  \* DockerContainerWorker._container_id
    started,       \* containers run_container.sh has started for this host
    staged,        \* file names copied into the build context by start()
    execs,         \* docker exec runs of the running send_command
    exitCode,      \* exit code of the last docker exec run: None or Some(code)
    worker_id,     \* what the worker_id property returned: None or Some(id)
    attempts,      \* calls of got_worker_id by the running worker_id read
    waited,        \* seconds wait_for has slept in that read
    caught,        \* exceptions got_worker_id has caught in that read
    kms_key_metadata, \* BealineManager.kms_key_metadata
    farm_id,       \* BealineManager.farm_id
    queue_id,      \* BealineManager.queue_id
    fleet_id,      \* BealineManager.fleet_id
    additional_queues, \* BealineManager.additional_queues
    managerOpsLeft, \* calls of manager methods still to come
    method,        \* the manager method the caller called last
    inner,         \* the method running: method, or one that it invoked
    at,            \* position of the manager: "idle" or the next request
    status,        \* "none", "running", "returned" or "raised"
    managerError,  \* the exception that reached the manager's caller
    events,        \* invocations, requests and sleeps of that call
    before,        \* what the manager tracked when that call began
    issued,        \* ids the two services have handed out
    queueIdx,      \* additional queues the running delete loop has visited
    shimCallsLeft, \* calls of BealineClient methods still to come
    shimMethod,    \* the BealineClient method called last
    kwargs,        \* the keyword arguments of that call, as given
    members,       \* input members of that operation in the service model
    shimAt,        \* "idle", "lookup" or "forward"
    shimStatus,    \* "none", "running", "returned" or "raised"
    shimError,     \* the exception that reached the caller of the shim
    outgoing,      \* the keyword arguments the shim is about to pass on
    real_calls     \* calls the shim made of _real_client in that call

cfgVars == <<variant, file_mappings, job_users, override_ami_id,
             no_install_service, caller_configuration, given>>

hostVars == <<opsLeft, op, pc, cont, outcome, error, calls, idAtCall>>

ec2Vars == <<instance_id, launched, ami_id, user_data_commands, userData,
             imageId, s3, stageIdx, released>>

\* the locals and observations of the dispatch loop of send_command
loopVars == <<i, dispatches, failures, sleeps, slept>>

scVars == <<command, waitArgs, loopVars, waits, cmdStatus, fetches, fetched>>

dockerVars == <<container_id, started, staged, execs, exitCode>>

\* the result and the observations of a read of the worker_id property
pollVars == <<worker_id, attempts, waited, caught>>

\* what a BealineManager tracks
trackedVars == <<kms_key_metadata, farm_id, queue_id, fleet_id,
                 additional_queues>>

managerVars == <<trackedVars, managerOpsLeft, method, inner, at, status,
                 managerError, events, before, issued, queueIdx>>

\* a BealineClient and the call of it that is running
shimVars == <<shimCallsLeft, shimMethod, kwargs, members, shimAt, shimStatus,
              shimError, outgoing, real_calls>>

vars == <<cfgVars, hostVars, ec2Vars, scVars, result, dockerVars, pollVars,
          managerVars, shimVars>>

(* ------------------------ BealineManager: values ------------------------ *)

\* the methods of BealineManager a caller calls
Methods ==
    { "create_kms_key", "delete_kms_key", "create_farm", "delete_farm",
      "create_queue", "delete_queue", "create_fleet", "delete_fleet",
      "create_additional_queue", "delete_additional_queues",
      "create_scaffolding", "cleanup_scaffolding" }

\* the keys of a KeyMetadata dict: the service sends KeyId and Arn, the
\* mocked clients of the unit tests one of them, another key or none
MetadataShapes == { { "KeyId", "Arn" }, { "KeyId" }, { "Arn" }, { "Foo" }, {} }

\* a KeyMetadata dict: the keys it holds, and the number of the key
Metadata(shape, n) == [ keys |-> shape, key |-> n ]

\* the n-th id a service handed out, for a resource of one kind
IdOf(kind, n) == <<kind, n>>

\* bool(dict): a dict is true when it is not empty
Truthy(md) == md # None /\ md[1].keys # {}

\* HasKey without the look into the dict
HasKeyNotNone(md, k) == md # None

\* md is not None and k in md
HasKey(md, k) == md # None /\ k \in md[1].keys

\* md["KeyId"] and md["Arn"]
KeyIdOf(md) == IdOf("key", md[1].key)
ArnOf(md) == IdOf("arn", md[1].key)

\* what the events of a call record: a method invoked, a request made of
\* a client with its keyword arguments, a sleep
Invoked(m) == <<"invoke", m, << >> >>
Request(name, args) == <<"request", name, args>>
Slept(seconds) == <<"sleep", "sleep", << <<"seconds", seconds>> >> >>
Printed(text) == <<"print", text, << >> >>

\* a BealineManager after __init__
ManagerInit ==
    /\ kms_key_metadata = None
    /\ farm_id = None
    /\ queue_id = None
    /\ fleet_id = None
    /\ additional_queues = << >>
    /\ managerOpsLeft = MaxManagerOps
    /\ method = "none"
    /\ inner = "none"
    /\ at = "idle"
    /\ status = "none"
    /\ managerError = ""
    /\ events = << >>
    /\ before = <<None, None, None, None, << >> >>
    /\ issued = 0
    /\ queueIdx = 0

\* a BealineClient after __init__
ShimInit ==
    /\ shimCallsLeft = MaxShimCalls
    /\ shimMethod = "none"
    /\ kwargs = << >>
    /\ members = {}
    /\ shimAt = "idle"
    /\ shimStatus = "none"
    /\ shimError = ""
    /\ outgoing = << >>
    /\ real_calls = << >>

\* Instance.__post_init__: the dataclass calls it with no argument
PostInit(arg) == IF arg # None THEN arg ELSE None

Init ==
    /\ variant \in { "ec2", "docker" }
    /\ file_mappings \in FileLists
    /\ job_users \in 0..MaxJobUsers
    /\ \E custom \in IF variant = "ec2" THEN BOOLEAN ELSE { FALSE } :
          \* the optional props are all left out, or all supplied
          /\ override_ami_id = IF custom THEN Some("ami-override") ELSE None
          /\ user_data_commands = IF custom THEN << <<"caller", 1>> >> ELSE <<>>
          /\ \E flag \in IF variant = "ec2" THEN { custom } ELSE BOOLEAN :
                LET config == Configuration(job_users, file_mappings, flag)
                    made == IF variant = "docker" THEN DockerPostInit(config)
                            ELSE WorkerInit(config)
                IN  /\ given = config
                    /\ caller_configuration = made.passed
                    /\ no_install_service = made.own.no_install_service
    /\ opsLeft = MaxOps
    /\ op = "none"
    /\ pc = "idle"
    /\ cont = "user"
    /\ outcome = "none"
    /\ error = ""
    /\ calls = <<>>
    /\ idAtCall = None
    /\ instance_id = None
    /\ launched = 0
    /\ ami_id = PostInit(None)
    /\ userData = <<>>
    /\ imageId = None
    /\ s3 = {}
    /\ stageIdx = 0
    /\ released = {}
    /\ command = ""
    /\ waitArgs = <<None, None>>
    /\ i = 0
    /\ dispatches = 0
    /\ failures = 0
    /\ sleeps = 0
    /\ slept = 0
    /\ waits = <<>>
    /\ cmdStatus = "none"
    /\ fetches = 0
    /\ fetched = None
    /\ result = None
    /\ container_id = None
    /\ started = 0
    /\ staged = <<>>
    /\ execs = 0
    /\ exitCode = None
    /\ worker_id = None
    /\ attempts = 0
    /\ waited = 0
    /\ caught = << >>
    /\ ManagerInit
    /\ ShimInit

(* ---------------------------- control flow ----------------------------- *)

\* an exception leaves the running operation and reaches the caller
Raise(e) ==
    /\ pc' = "idle"
    /\ outcome' = "raised"
    /\ error' = e

\* the running operation returns normally
Return ==
    /\ pc' = "idle"
    /\ outcome' = "returned"
    /\ error' = ""

\* a caller operation begins on a host whose resource id is id
Begin(name, id) ==
    /\ pc = "idle"
    /\ opsLeft > 0
    /\ opsLeft' = opsLeft - 1
    /\ op' = name
    /\ idAtCall' = id
    /\ worker_id' = None
    /\ waited' = 0
    /\ caught' = << >>

\* the dispatch loop's locals and observations are empty outside the loop
ClearLoop ==
    /\ i' = 0
    /\ dispatches' = 0
    /\ failures' = 0
    /\ sleeps' = 0
    /\ slept' = 0

\* an operation that sends nothing to the instance starts with the
\* observations of the last send_command cleared
ClearSendCommand ==
    /\ command' = ""
    /\ cont' = "user"
    /\ waitArgs' = <<None, None>>
    /\ ClearLoop
    /\ waits' = <<>>
    /\ cmdStatus' = "none"
    /\ fetches' = 0
    /\ fetched' = None
    /\ result' = None

\* entry of Instance.send_command: the observations of the call start empty
EnterSendCommand(cmd, args, from) ==
    /\ command' = cmd
    /\ waitArgs' = args
    /\ cont' = from
    /\ ClearLoop
    /\ waits' = <<>>
    /\ cmdStatus' = "none"
    /\ fetches' = 0
    /\ fetched' = None
    /\ result' = None
    /\ pc' = "sc_dispatch"
    /\ outcome' = "running"
    /\ error' = ""

(* ----------------------- Instance.send_command ------------------------- *)

\* the caller calls send_command(command, wait_delay=, wait_max_attempts=)
SendCommandCall(args) ==
    /\ variant = "ec2"
    /\ Begin("send_command", instance_id)
    /\ EnterSendCommand("user", args, "user")
    /\ calls' = <<"send_command:user">>
    /\ attempts' = 0
    /\ UNCHANGED <<shimVars, managerVars, cfgVars, ec2Vars, dockerVars>>

\* ShouldRetry with the last attempt retried too
ShouldRetryOffByOne(code, idx) ==
    code = "InvalidInstanceId" /\ idx < NUM_RETRIES

\* ShouldRetry with every error code retried
ShouldRetryAnyCode(code, idx) ==
    idx < NUM_RETRIES - 1

\* the except clause of the dispatch loop: sleep and retry, or re-raise
ShouldRetry(code, idx) ==
    code = "InvalidInstanceId" /\ idx < NUM_RETRIES - 1

\* one pass of the dispatch loop: ssm_client.send_command and its handling
Dispatch(o) ==
    /\ pc = "sc_dispatch"
    /\ dispatches' = dispatches + 1
    /\ failures' = failures + (IF o = "InvalidInstanceId" THEN 1 ELSE 0)
    /\ IF o = "ok"
       THEN \* break: the command id of the response is kept
            /\ cmdStatus' = "InProgress"
            /\ pc' = "sc_wait"
            /\ UNCHANGED <<i, sleeps, slept, outcome, error>>
       ELSE IF o \in ClientErrorCodes /\ ShouldRetry(o, i)
       THEN /\ sleeps' = sleeps + 1
            /\ slept' = slept + SLEEP_INTERVAL_S
            /\ i' = i + 1
            /\ IF i + 1 < NUM_RETRIES
               THEN UNCHANGED <<pc, outcome, error>>
               ELSE \* the loop ends without a response to read the id from
                    Raise("UnboundLocalError")
            /\ UNCHANGED cmdStatus
       ELSE /\ Raise(o)
            /\ UNCHANGED <<i, sleeps, slept, cmdStatus>>
    /\ UNCHANGED <<shimVars, managerVars, cfgVars, pollVars, opsLeft, op, cont,
                   calls, idAtCall, ec2Vars, command, waitArgs, waits, fetches,
                   fetched, result, dockerVars>>

\* the WaiterConfig send_command passes to the command_executed waiter
WaiterConfig(args) ==
    [Delay |-> IF args[1] # None THEN args[1][1] ELSE DEFAULT_WAIT_DELAY,
     MaxAttempts |-> IF args[2] # None THEN args[2][1]
                     ELSE DEFAULT_WAIT_MAX_ATTEMPTS]

\* what ssm_waiter.wait raises for an outcome: nothing when the command
\* succeeded, WaiterError when it failed or the attempts ran out
WaiterRaises(o) ==
    IF o = "Success" THEN ""
    ELSE IF o \in CommandStatuses THEN "WaiterError"
    ELSE o

\* Swallowed with the except clause left out
SwallowsNothing(exc) == FALSE

\* the except clause around the wait
Swallowed(exc) == exc = "WaiterError"

\* the terminal-state wait; the dispatch loop has been left for good
Wait(o) ==
    /\ pc = "sc_wait"
    /\ cmdStatus' = IF o \in CommandStatuses THEN o ELSE cmdStatus
    /\ LET exc == WaiterRaises(o)
       IN  /\ waits' = Append(waits, [config |-> WaiterConfig(waitArgs),
                                      raised |-> exc])
           /\ IF exc = "" \/ Swallowed(exc)
              THEN pc' = "sc_fetch" /\ UNCHANGED <<outcome, error>>
              ELSE Raise(exc)
    /\ ClearLoop
    /\ UNCHANGED <<shimVars, managerVars, cfgVars, pollVars, opsLeft, op, cont,
                   calls, idAtCall, ec2Vars, command, waitArgs, fetches,
                   fetched, result, dockerVars>>

\* CommandResultOf with the two output fields exchanged
CommandResultSwapped(resp) ==
    [exit_code |-> resp.ResponseCode,
     stdout |-> resp.StandardErrorContent,
     stderr |-> resp.StandardOutputContent]

\* the CommandResult built from a get_command_invocation response
CommandResultOf(resp) ==
    [exit_code |-> resp.ResponseCode,
     stdout |-> resp.StandardOutputContent,
     stderr |-> resp.StandardErrorContent]

\* get_command_invocation answers, and send_command builds its result
Fetch(resp) ==
    /\ pc = "sc_fetch"
    /\ fetches' = fetches + 1
    /\ fetched' = Some(resp)
    /\ cmdStatus' = resp.Status
    /\ result' = Some(CommandResultOf(resp))
    /\ pc' = "sc_done"
    /\ UNCHANGED <<outcome, error>>
    /\ UNCHANGED <<shimVars, managerVars, cfgVars, pollVars, opsLeft, op, cont,
                   calls, idAtCall, ec2Vars, command, waitArgs, loopVars,
                   waits, dockerVars>>

\* get_command_invocation raises: nothing catches it
FetchFails ==
    /\ pc = "sc_fetch"
    /\ fetches' = fetches + 1
    /\ Raise("ClientError")
    /\ UNCHANGED <<shimVars, managerVars, cfgVars, pollVars, opsLeft, op, cont,
                   calls, idAtCall, ec2Vars, command, waitArgs, loopVars,
                   waits, cmdStatus, fetched, result, dockerVars>>

\* send_command returns its result to the caller of the host
SendCommandReturns ==
    /\ pc = "sc_done"
    /\ cont = "user"
    /\ Return
    /\ UNCHANGED <<shimVars, managerVars, cfgVars, pollVars, opsLeft, op, cont,
                   calls, idAtCall, ec2Vars, scVars, result, dockerVars>>

(* ------------------ EC2InstanceWorker.start / stop --------------------- *)

\* the commands _add_user_data generates for the job users 1..n
RECURSIVE JobUsersCmds(_)
JobUsersCmds(n) ==
    IF n = 0 THEN <<>>
    ELSE JobUsersCmds(n - 1) \o
         << <<"groupadd_job", n>>, <<"useradd_job", n>>, <<"usermod_agent", n>> >>

\* EC2InstanceWorker._add_user_data: the new props.user_data_commands
AddUserData(cmds, n) ==
    cmds \o << <<"groupadd_agent", 0>>, <<"useradd_agent", 0>>,
               <<"s3_max_bandwidth_50", 0>> >>
         \o JobUsersCmds(n) \o << <<"sudoers_rule", n>>, <<"venv", 0>> >>

\* upload_files_to_s3: the object key a file is uploaded under
Key(path) == <<"instance", Basename(path)>>

\* a Python dict, as its items in insertion order, after d[k] = v
DictSet(d, k, v) ==
    IF \E j \in 1..Len(d) : d[j][1] = k
    THEN [j \in 1..Len(d) |-> IF d[j][1] = k THEN <<k, v>> ELSE d[j]]
    ELSE Append(d, <<k, v>>)

\* Instance._stage_s3_bucket: the dict of S3 key to destination it returns
RECURSIVE S3Files(_)
S3Files(files) ==
    IF files = <<>> THEN <<>>
    ELSE LET last == files[Len(files)]
         IN  DictSet(S3Files(SubSeq(files, 1, Len(files) - 1)),
                     Key(last), Dst(last))

\* the commands of the UserData script _launch_instance builds
UserDataOf(s3_files, cmds) ==
    << <<"s3_max_bandwidth_10", 0>> >>
    \o [j \in 1..Len(s3_files) |-> <<"copy_and_chown", j>>]
    \o cmds

\* the caller calls start(): _add_user_data, then Instance.start begins
StartCall ==
    /\ variant = "ec2"
    /\ Begin("start", instance_id)
    /\ user_data_commands' = AddUserData(user_data_commands, job_users)
    /\ calls' = <<>>
    /\ stageIdx' = 0
    /\ pc' = IF file_mappings = <<>> THEN "launch" ELSE "stage"
    /\ outcome' = "running"
    /\ error' = ""
    /\ ClearSendCommand
    /\ attempts' = 0
    /\ UNCHANGED <<shimVars, managerVars, cfgVars, instance_id, launched,
                   ami_id, userData, imageId, s3, released, dockerVars>>

\* upload_files_to_s3: one pass of the upload loop
Upload(o) ==
    /\ pc = "stage"
    /\ LET file == file_mappings[stageIdx + 1]
       IN  IF o = "OSError"
           THEN \* open(file) fails: nothing is put
                Raise(o) /\ UNCHANGED <<calls, s3, stageIdx>>
           ELSE /\ calls' = Append(calls, "s3.put_object")
                /\ IF o = "ok"
                   THEN /\ s3' = s3 \cup { Key(file) }
                        /\ stageIdx' = stageIdx + 1
                        /\ pc' = IF stageIdx + 1 = Len(file_mappings)
                                 THEN "launch" ELSE "stage"
                        /\ UNCHANGED <<outcome, error>>
                   ELSE Raise(o) /\ UNCHANGED <<s3, stageIdx>>
    /\ UNCHANGED <<shimVars, managerVars, cfgVars, pollVars, opsLeft, op, cont,
                   idAtCall, instance_id, launched, ami_id, user_data_commands,
                   userData, imageId, released, scVars, result, dockerVars>>

\* the assertion that opens _launch_instance
LaunchAllowed(id) == id = None

\* HasAmiId with the memoized value never found
HasAmiIdNever(a) == FALSE

\* hasattr(self, "_ami_id") in the ami_id property
HasAmiId(a) == a # None

\* _launch_instance up to the evaluation of self.ami_id
Launch ==
    /\ pc = "launch"
    /\ IF LaunchAllowed(instance_id)
       THEN /\ pc' = IF HasAmiId(ami_id) THEN "run" ELSE "ami"
            /\ UNCHANGED <<outcome, error>>
       ELSE Raise("AssertionError")
    /\ UNCHANGED <<shimVars, managerVars, cfgVars, pollVars, opsLeft, op, cont,
                   calls, idAtCall, ec2Vars, scVars, result, dockerVars>>

\* Instance.ami_id without a memoized value: get_parameters returns n parameters
AmiLookup(n) ==
    /\ pc = "ami"
    /\ calls' = Append(calls, "ssm.get_parameters")
    /\ IF n = 1
       THEN /\ ami_id' = Some("ami-latest")
            /\ pc' = "run"
            /\ UNCHANGED <<outcome, error>>
       ELSE Raise("AssertionError") /\ UNCHANGED ami_id
    /\ UNCHANGED <<shimVars, managerVars, cfgVars, pollVars, opsLeft, op, cont,
                   idAtCall, instance_id, launched, user_data_commands,
                   userData, imageId, s3, stageIdx, released, scVars, result,
                   dockerVars>>

\* Instance.ami_id: the get_parameters call raises
AmiLookupFails ==
    /\ pc = "ami"
    /\ calls' = Append(calls, "ssm.get_parameters")
    /\ Raise("ClientError")
    /\ UNCHANGED <<shimVars, managerVars, cfgVars, pollVars, opsLeft, op, cont,
                   idAtCall, ec2Vars, scVars, result, dockerVars>>

\* the run_instances request and the assignment of instance_id
RunInstances(o) ==
    /\ pc = "run"
    /\ calls' = Append(calls, "ec2.run_instances")
    /\ IF o = "ok"
       THEN /\ launched' = launched + 1
            /\ instance_id' = InstanceIdOf(launched + 1)
            /\ userData' = UserDataOf(S3Files(file_mappings), user_data_commands)
            /\ imageId' = ami_id
            /\ pc' = "status_wait"
            /\ UNCHANGED <<outcome, error>>
       ELSE Raise(o) /\ UNCHANGED <<launched, instance_id, userData, imageId>>
    /\ UNCHANGED <<shimVars, managerVars, cfgVars, pollVars, opsLeft, op, cont,
                   idAtCall, ami_id, user_data_commands, s3, stageIdx,
                   released, scVars, result, dockerVars>>

\* StatusWait with the instance id dropped when the wait fails
StatusWaitForgets(o) ==
    /\ pc = "status_wait"
    /\ IF o = "ok"
       THEN /\ EnterSendCommand("cloud-init", <<None, None>>, "cloud-init")
            /\ calls' = calls \o <<"ec2.wait_status_ok", "send_command:cloud-init">>
            /\ UNCHANGED instance_id
       ELSE /\ Raise(o)
            /\ calls' = Append(calls, "ec2.wait_status_ok")
            /\ instance_id' = None
            /\ UNCHANGED <<cont, scVars, result>>
    /\ UNCHANGED <<shimVars, managerVars, cfgVars, pollVars, opsLeft, op,
                   idAtCall, launched, ami_id, user_data_commands, userData,
                   imageId, s3, stageIdx, released, dockerVars>>

\* the instance_status_ok wait, then the cloud-init command is sent
StatusWait(o) ==
    /\ pc = "status_wait"
    /\ IF o = "ok"
       THEN /\ EnterSendCommand("cloud-init", <<None, None>>, "cloud-init")
            /\ calls' = calls \o <<"ec2.wait_status_ok", "send_command:cloud-init">>
       ELSE /\ Raise(o)
            /\ calls' = Append(calls, "ec2.wait_status_ok")
            /\ UNCHANGED <<cont, scVars, result>>
    /\ UNCHANGED <<shimVars, managerVars, cfgVars, pollVars, opsLeft, op,
                   idAtCall, ec2Vars, dockerVars>>

\* ExitCodeOk with only the not-received code -1 taken as a failure
ExitCodeNotMinusOne(res) == res.exit_code # -1

\* the exit-code checks of _launch_instance and _start_worker_agent
ExitCodeOk(res) == res.exit_code = 0

\* cloud-init returned: _launch_instance checks it; _start_worker_agent begins
CloudInitDone ==
    /\ pc = "sc_done"
    /\ cont = "cloud-init"
    /\ IF ExitCodeOk(result[1])
       THEN /\ EnterSendCommand("configure", <<None, None>>, "configure")
            /\ calls' = Append(calls, "send_command:configure")
       ELSE /\ Raise("Exception")
            /\ UNCHANGED <<cont, calls, scVars, result>>
    /\ UNCHANGED <<shimVars, managerVars, cfgVars, pollVars, opsLeft, op,
                   idAtCall, ec2Vars, dockerVars>>

\* the configure command returned: asserted, then the agent is started
ConfigureDone ==
    /\ pc = "sc_done"
    /\ cont = "configure"
    /\ IF ExitCodeOk(result[1])
       THEN /\ EnterSendCommand("start_agent", <<None, None>>, "start_agent")
            /\ calls' = Append(calls, "send_command:start_agent")
       ELSE /\ Raise("AssertionError")
            /\ UNCHANGED <<cont, calls, scVars, result>>
    /\ UNCHANGED <<shimVars, managerVars, cfgVars, pollVars, opsLeft, op,
                   idAtCall, ec2Vars, dockerVars>>

\* the start command returned: asserted, and start() returns
StartAgentDone ==
    /\ pc = "sc_done"
    /\ cont = "start_agent"
    /\ IF ExitCodeOk(result[1]) THEN Return ELSE Raise("AssertionError")
    /\ UNCHANGED <<shimVars, managerVars, cfgVars, pollVars, opsLeft, op, cont,
                   calls, idAtCall, ec2Vars, scVars, result, dockerVars>>

\* StopCall with the instance id cleared whatever the request did
StopCallClearsAlways(o) ==
    /\ variant = "ec2"
    /\ Begin("stop", instance_id)
    /\ attempts' = 0
    /\ calls' = <<"ec2.terminate_instances">>
    /\ released' = released \cup { instance_id }
    /\ instance_id' = None
    /\ IF o = "ok" THEN Return ELSE Raise(o)
    /\ ClearSendCommand
    /\ UNCHANGED <<shimVars, managerVars, cfgVars, launched, ami_id,
                   user_data_commands, userData, imageId, s3, stageIdx,
                   dockerVars>>

\* the caller calls stop(): Instance.stop
StopCall(o) ==
    /\ variant = "ec2"
    /\ Begin("stop", instance_id)
    /\ calls' = <<"ec2.terminate_instances">>
    /\ released' = released \cup { instance_id }
    /\ IF o = "ok"
       THEN instance_id' = None /\ Return
       ELSE UNCHANGED instance_id /\ Raise(o)
    /\ ClearSendCommand
    /\ attempts' = 0
    /\ UNCHANGED <<shimVars, managerVars, cfgVars, launched, ami_id,
                   user_data_commands, userData, imageId, s3, stageIdx,
                   dockerVars>>

(* -------------------- EC2InstanceWorker.worker_id ---------------------- *)

\* the caller reads worker_id: the property sends its read command
WorkerIdCall ==
    /\ variant = "ec2"
    /\ Begin("worker_id", instance_id)
    /\ attempts' = 0
    /\ EnterSendCommand("worker_id", <<None, None>>, "worker_id")
    /\ calls' = <<"send_command:worker_id">>
    /\ UNCHANGED <<shimVars, managerVars, cfgVars, ec2Vars, dockerVars>>

\* the read command returned: the two assertions of the property
WorkerIdDone ==
    /\ pc = "sc_done"
    /\ cont = "worker_id"
    /\ LET id == Rstrip(result[1].stdout, StripChars)
       IN  IF ExitCodeOk(result[1]) /\ ReMatch(id)
           THEN worker_id' = Some(id) /\ Return
           ELSE UNCHANGED worker_id /\ Raise("AssertionError")
    /\ UNCHANGED <<shimVars, managerVars, cfgVars, attempts, waited, caught,
                   opsLeft, op, cont, calls, idAtCall, ec2Vars, scVars, result,
                   dockerVars>>

(* ----------------------- DockerContainerWorker ------------------------- *)

\* exit codes of a command run by docker exec
ExitCodes == { 0, 1, 2 }

\* JobUsersSupported with several job users let through
JobUsersAtLeastOne(n) == n >= 1

\* the assertion on the job users that opens start()
JobUsersSupported(n) == n = 1

\* FirstDuplicate with the assertion on the staged paths left out
FirstDuplicateNone(files) == 0

\* index of the first file mapping whose staged path was already generated
\* by an earlier one, or 0 when the staged paths are all different
FirstDuplicate(files) ==
    LET dups == { j \in 1..Len(files) :
                    \E k \in 1..(j - 1) : Basename(files[k]) = Basename(files[j]) }
    IN  IF dups = {} THEN 0
        ELSE CHOOSE j \in dups : \A k \in dups : j <= k

\* the file names start() has copied when its staging loop ends or asserts
StagedNames(files) ==
    LET d == FirstDuplicate(files)
        n == IF d = 0 THEN Len(files) ELSE d - 1
    IN  [j \in 1..n |-> Basename(files[j])]

\* the caller calls start(): everything before the build script is run
DockerStartCall(o) ==
    /\ variant = "docker"
    /\ Begin("start", container_id)
    /\ calls' = <<>>
    /\ IF ~JobUsersSupported(job_users)
       THEN Raise("AssertionError") /\ staged' = <<>>
       ELSE IF o # "ok"
       THEN \* copying the build context fails
            Raise(o) /\ staged' = <<>>
       ELSE /\ staged' = StagedNames(file_mappings)
            /\ IF FirstDuplicate(file_mappings) # 0
               THEN Raise("AssertionError")
               ELSE pc' = "docker_build" /\ outcome' = "running" /\ error' = ""
    /\ command' = ""
    /\ cont' = "user"
    /\ execs' = 0
    /\ exitCode' = None
    /\ result' = None
    /\ attempts' = 0
    /\ UNCHANGED <<shimVars, managerVars, cfgVars, ec2Vars, waitArgs, loopVars,
                   waits, cmdStatus, fetches, fetched, container_id, started>>

\* run_container.sh is run and waited for
DockerBuild(o) ==
    /\ pc = "docker_build"
    /\ calls' = Append(calls, "run_container.sh")
    /\ IF o = "ok"
       THEN /\ started' = started + 1
            /\ pc' = "docker_cid"
            /\ UNCHANGED <<outcome, error>>
       ELSE /\ Raise(IF o = "nonzero" THEN "AssertionError" ELSE o)
            /\ UNCHANGED started
    /\ UNCHANGED <<shimVars, managerVars, cfgVars, pollVars, opsLeft, op, cont,
                   idAtCall, ec2Vars, scVars, result, container_id, staged,
                   execs, exitCode>>

\* the container id is read from the cidfile
DockerReadCid(o) ==
    /\ pc = "docker_cid"
    /\ calls' = Append(calls, "cat .container_id")
    /\ IF o = "ok"
       THEN container_id' = ContainerIdOf(started) /\ Return
       ELSE UNCHANGED container_id /\ Raise(o)
    /\ UNCHANGED <<shimVars, managerVars, cfgVars, pollVars, opsLeft, op, cont,
                   idAtCall, ec2Vars, scVars, result, started, staged, execs,
                   exitCode>>

\* the assertion that opens send_command and stop
ContainerIdSet(id) == id # None

\* entry of DockerContainerWorker.send_command
EnterDockerSendCommand(cmd, from) ==
    /\ command' = cmd
    /\ cont' = from
    /\ execs' = 0
    /\ exitCode' = None
    /\ result' = None
    /\ IF ContainerIdSet(container_id)
       THEN pc' = "docker_exec" /\ outcome' = "running" /\ error' = ""
       ELSE Raise("AssertionError")

\* the caller calls send_command(command)
DockerSendCommandCall ==
    /\ variant = "docker"
    /\ Begin("send_command", container_id)
    /\ calls' = <<>>
    /\ EnterDockerSendCommand("user", "user")
    /\ attempts' = 0
    /\ UNCHANGED <<shimVars, managerVars, cfgVars, ec2Vars, waitArgs, loopVars,
                   waits, cmdStatus, fetches, fetched, container_id, started,
                   staged>>

\* CheckRaises as subprocess.run(check=False) would have it
CheckRaisesNever(code) == FALSE

\* subprocess.run(check=True): whether an exit code raises CalledProcessError
CheckRaises(code) == code # 0

\* the CommandResult built from a completed process; stderr is merged into
\* stdout, so result.stderr is Python's None, written "None" here
ProcessResultOf(code, out) ==
    [exit_code |-> code, stdout |-> out, stderr |-> "None"]

\* docker exec runs the command, which exits with a code
DockerExec(code, out) ==
    /\ pc = "docker_exec"
    /\ cont # "worker_id"
    /\ execs' = execs + 1
    /\ exitCode' = Some(code)
    /\ calls' = Append(calls, "docker exec")
    /\ IF CheckRaises(code)
       THEN Raise("CalledProcessError") /\ UNCHANGED result
       ELSE /\ result' = Some(ProcessResultOf(code, out))
            /\ IF cont = "user"
               THEN Return
               ELSE \* stop() goes on to stop the container
                    pc' = "docker_stop" /\ UNCHANGED <<outcome, error>>
    /\ UNCHANGED <<shimVars, managerVars, cfgVars, pollVars, opsLeft, op, cont,
                   idAtCall, ec2Vars, scVars, container_id, started, staged>>

\* the arguments worker_id passes to wait_for
interval_s == 10

max_retries == 6

\* wait_for: whether the budget is used up once the predicate has been
\* called `made` times without success
WaitForExhausted(made, retries) == made >= retries

\* GotWorkerId with no result ever taken as a success
GotWorkerIdNever(res) == FALSE

\* the value got_worker_id returns once send_command has returned
GotWorkerId(res) == res.exit_code = 0

\* PollCatches with no except clause
PollCatchesNothing(exc) == FALSE

\* PollCatches with `except Exception`
PollCatchesAll(exc) == TRUE

\* the except clause of got_worker_id
PollCatches(exc) == exc = "CalledProcessError"

\* docker exec cannot be run at all: nothing on the way catches the
\* OSError but, in a read of the worker id, the except clause of
\* got_worker_id if it is one for this exception, and then wait_for goes
\* on or gives up
DockerExecFails ==
    /\ pc = "docker_exec"
    /\ calls' = Append(calls, "docker exec")
    /\ IF cont = "worker_id" /\ PollCatches("OSError")
       THEN /\ caught' = Append(caught, "OSError")
            /\ IF WaitForExhausted(attempts, max_retries)
               THEN /\ execs' = execs + 1
                    /\ Raise("RetryBudgetExhausted")
                    /\ UNCHANGED <<attempts, waited, command, cont, result,
                                   exitCode>>
               ELSE /\ waited' = waited + interval_s
                    /\ attempts' = attempts + 1
                    /\ EnterDockerSendCommand("worker_id", "worker_id")
       ELSE /\ execs' = execs + 1
            /\ Raise("OSError")
            /\ UNCHANGED <<attempts, waited, caught, command, cont, result,
                           exitCode>>
    /\ UNCHANGED <<shimVars, managerVars, cfgVars, worker_id, opsLeft, op,
                   idAtCall, ec2Vars, waitArgs, loopVars, waits, cmdStatus,
                   fetches, fetched, container_id, started, staged>>

\* the caller calls stop(): the assertion, then the pkill command is sent
DockerStopCall ==
    /\ variant = "docker"
    /\ Begin("stop", container_id)
    /\ calls' = <<>>
    /\ IF ContainerIdSet(container_id)
       THEN EnterDockerSendCommand("pkill", "pkill")
       ELSE /\ Raise("AssertionError")
            /\ command' = ""
            /\ cont' = "user"
            /\ execs' = 0
            /\ exitCode' = None
            /\ result' = None
    /\ attempts' = 0
    /\ UNCHANGED <<shimVars, managerVars, cfgVars, ec2Vars, waitArgs, loopVars,
                   waits, cmdStatus, fetches, fetched, container_id, started,
                   staged>>

\* docker container stop, and the container id is cleared
DockerContainerStop(o) ==
    /\ pc = "docker_stop"
    /\ calls' = Append(calls, "docker container stop")
    /\ released' = released \cup { container_id }
    /\ IF o = "ok"
       THEN container_id' = None /\ Return
       ELSE UNCHANGED container_id /\ Raise(o)
    /\ UNCHANGED <<shimVars, managerVars, cfgVars, pollVars, opsLeft, op, cont,
                   idAtCall, instance_id, launched, ami_id, user_data_commands,
                   userData, imageId, s3, stageIdx, scVars, result, started,
                   staged, execs, exitCode>>

(* ------------------- DockerContainerWorker.worker_id ------------------- *)

\* the caller reads worker_id: wait_for calls got_worker_id, which enters
\* send_command
DockerWorkerIdCall ==
    /\ variant = "docker"
    /\ Begin("worker_id", container_id)
    /\ calls' = <<>>
    /\ attempts' = 1
    /\ EnterDockerSendCommand("worker_id", "worker_id")
    /\ UNCHANGED <<shimVars, managerVars, cfgVars, ec2Vars, waitArgs, loopVars,
                   waits, cmdStatus, fetches, fetched, container_id, started,
                   staged>>

\* one call of got_worker_id from docker exec on: what the command did,
\* what got_worker_id makes of it, and what wait_for and the property do next
DockerPoll(code, out) ==
    /\ pc = "docker_exec"
    /\ cont = "worker_id"
    /\ calls' = Append(calls, "docker exec")
    /\ LET raised == IF CheckRaises(code) THEN "CalledProcessError" ELSE ""
           res == ProcessResultOf(code, out)
           got == raised = "" /\ GotWorkerId(res)
           id == Rstrip(res.stdout, StripChars)
       IN  /\ caught' = IF raised # "" /\ PollCatches(raised)
                        THEN Append(caught, raised) ELSE caught
           /\ IF got \/ (raised # "" /\ ~PollCatches(raised))
                 \/ WaitForExhausted(attempts, max_retries)
              THEN /\ execs' = execs + 1
                   /\ exitCode' = Some(code)
                   /\ result' = IF raised = "" THEN Some(res) ELSE result
                   /\ IF raised # "" /\ ~PollCatches(raised)
                      THEN Raise(raised) /\ UNCHANGED worker_id
                      ELSE IF ~got
                      THEN Raise("RetryBudgetExhausted") /\ UNCHANGED worker_id
                      ELSE IF ExitCodeOk(res) /\ ReMatch(id)
                      THEN worker_id' = Some(id) /\ Return
                      ELSE Raise("AssertionError") /\ UNCHANGED worker_id
                   /\ UNCHANGED <<command, cont, attempts, waited>>
              ELSE \* wait_for sleeps and calls got_worker_id again
                   /\ waited' = waited + interval_s
                   /\ attempts' = attempts + 1
                   /\ EnterDockerSendCommand("worker_id", "worker_id")
                   /\ UNCHANGED worker_id
    /\ UNCHANGED <<shimVars, managerVars, cfgVars, opsLeft, op, idAtCall,
                   ec2Vars, waitArgs, loopVars, waits, cmdStatus, fetches,
                   fetched, container_id, started, staged>>

(* --------------------------- specification ----------------------------- *)

Next ==
    \/ \E args \in WaitArgs : SendCommandCall(args)
    \/ \E o \in DispatchOutcomes : Dispatch(o)
    \/ \E o \in WaitOutcomes : Wait(o)
    \/ \E resp \in InvocationsFor(command, cmdStatus) : Fetch(resp)
    \/ FetchFails
    \/ SendCommandReturns
    \/ StartCall
    \/ \E o \in { "ok", "ClientError", "OSError" } : Upload(o)
    \/ Launch
    \/ \E n \in 0..2 : AmiLookup(n)
    \/ AmiLookupFails
    \/ \E o \in { "ok", "ClientError" } : RunInstances(o)
    \/ \E o \in { "ok", "WaiterError" } : StatusWait(o)
    \/ CloudInitDone
    \/ ConfigureDone
    \/ StartAgentDone
    \/ \E o \in { "ok", "ClientError" } : StopCall(o)
    \/ \E o \in { "ok", "OSError" } : DockerStartCall(o)
    \/ \E o \in { "ok", "nonzero", "OSError" } : DockerBuild(o)
    \/ \E o \in { "ok", "CalledProcessError" } : DockerReadCid(o)
    \/ DockerSendCommandCall
    \/ \E code \in ExitCodes, o \in Outputs : DockerExec(code, o[1])
    \/ DockerExecFails
    \/ DockerStopCall
    \/ \E o \in { "ok", "CalledProcessError" } : DockerContainerStop(o)
    \/ WorkerIdCall
    \/ WorkerIdDone
    \/ DockerWorkerIdCall
    \/ \E code \in ExitCodes, out \in WorkerIdOutputs : DockerPoll(code, out)

Spec == Init /\ [][Next]_vars

(* ----------------------- BealineManager: control ------------------------ *)

\* the state of a worker host, which no manager method touches
hostAllVars ==
    <<cfgVars, hostVars, ec2Vars, scVars, result, dockerVars, pollVars>>

\* what a request of one of the two clients may do
ClientOutcomes == { "ok", "ClientError" }

\* an exception leaves the called method and reaches the caller
ManagerRaise(e) ==
    /\ at' = "idle"
    /\ status' = "raised"
    /\ managerError' = e

\* the called method returns normally
ManagerReturn ==
    /\ at' = "idle"
    /\ status' = "returned"
    /\ managerError' = ""

\* the called method goes on to its next request
Proceed(position) ==
    /\ at' = position
    /\ status' = "running"
    /\ managerError' = ""

\* the checks create_farm, create_queue and create_fleet begin with
CreateAllowed(m) ==
    CASE m = "create_farm" -> HasKey(kms_key_metadata, "Arn")
      [] m \in { "create_queue", "create_fleet" } -> farm_id # None
      [] OTHER -> TRUE

\* DeleteAllowed looking at the farm id only
DeleteAllowedFarmOnly(m) ==
    CASE m = "delete_kms_key" -> HasKey(kms_key_metadata, "KeyId")
      [] m \in { "delete_farm", "delete_queue", "delete_fleet" } ->
            farm_id # None
      [] OTHER -> TRUE

\* the checks the four delete methods begin with
DeleteAllowed(m) ==
    CASE m = "delete_kms_key" -> HasKey(kms_key_metadata, "KeyId")
      [] m = "delete_farm" -> farm_id # None
      [] m = "delete_queue" -> farm_id # None /\ queue_id # None
      [] m = "delete_fleet" -> farm_id # None /\ fleet_id # None
      [] OTHER -> TRUE

\* FirstRequest with delete_fleet going straight to the delete request
FirstRequestNoDisable(m) ==
    CASE m = "create_kms_key" -> "kms.create_key"
      [] m = "delete_kms_key" -> "kms.schedule_key_deletion"
      [] m = "create_farm" -> "bealine.create_farm"
      [] m = "delete_farm" -> "bealine.delete_farm"
      [] m = "create_queue" -> "bealine.create_queue"
      [] m = "delete_queue" -> "bealine.delete_queue"
      [] m = "create_fleet" -> "bealine.create_fleet"
      [] m = "delete_fleet" -> "bealine.delete_fleet"
      [] m = "create_additional_queue" -> "additional.create_queue"
      [] m = "delete_additional_queues" ->
            IF additional_queues = << >> THEN "return"
            ELSE "additional.delete_queue"

\* where a method is once its checks have passed: at its first request,
\* or at its return when delete_additional_queues has no queue to visit
FirstRequest(m) ==
    CASE m = "create_kms_key" -> "kms.create_key"
      [] m = "delete_kms_key" -> "kms.schedule_key_deletion"
      [] m = "create_farm" -> "bealine.create_farm"
      [] m = "delete_farm" -> "bealine.delete_farm"
      [] m = "create_queue" -> "bealine.create_queue"
      [] m = "delete_queue" -> "bealine.delete_queue"
      [] m = "create_fleet" -> "bealine.create_fleet"
      [] m = "delete_fleet" -> "bealine.update_fleet"
      [] m = "create_additional_queue" -> "additional.create_queue"
      [] m = "delete_additional_queues" ->
            IF additional_queues = << >> THEN "return"
            ELSE "additional.delete_queue"

\* method m is invoked after the events ev: its checks raise, or it goes
\* to its first request
Invoke(m, ev) ==
    /\ inner' = m
    /\ events' = Append(ev, Invoked(m))
    /\ IF CreateAllowed(m) /\ DeleteAllowed(m)
       THEN Proceed(FirstRequest(m))
       ELSE ManagerRaise("Exception")

\* the request the manager is at is made with these keyword arguments
Requested(name, args) == events' = Append(events, Request(name, args))

\* the caller calls a method of the manager
ManagerCall(m) ==
    /\ at = "idle"
    /\ managerOpsLeft > 0
    /\ m = "create_additional_queue" => Len(additional_queues) < MaxQueues
    /\ managerOpsLeft' = managerOpsLeft - 1
    /\ method' = m
    /\ before' = trackedVars
    /\ queueIdx' = 0
    /\ CASE m = "create_scaffolding" -> Invoke("create_kms_key", << >>)
         [] m = "cleanup_scaffolding" ->
               Invoke("delete_additional_queues", << >>)
         [] OTHER -> Invoke(m, << >>)
    /\ UNCHANGED <<trackedVars, issued, hostAllVars, shimVars>>

(* ------------------ BealineManager: the resources ----------------------- *)

pending_window == 7

\* the else branch of the try around a request: the tracked value is
\* assigned only when the request raised nothing
TrackedAfter(o, old, new) == IF o = "ok" THEN new ELSE old

\* ids handed out once a creating request was answered
IssuedAfter(o) == IF o = "ok" THEN issued + 1 ELSE issued

\* a request was answered: the method is done, or the error is re-raised
Answered(o) == IF o = "ok" THEN Proceed("return") ELSE ManagerRaise(o)

\* kms_client.create_key answers: create_kms_key
CreateKey(o, shape) ==
    /\ at = "kms.create_key"
    /\ Requested("kms.create_key", << >>)
    /\ kms_key_metadata' =
          TrackedAfter(o, kms_key_metadata,
                       Some(Metadata(shape, issued + 1)))
    /\ issued' = IssuedAfter(o)
    /\ IF o # "ok" THEN ManagerRaise(o)
       ELSE IF shape = {} THEN Proceed("return")
       ELSE IF "KeyId" \in shape THEN Proceed("kms.enable_key")
       ELSE ManagerRaise("KeyError")
    /\ UNCHANGED <<farm_id, queue_id, fleet_id, additional_queues,
                   managerOpsLeft, method, inner, before, queueIdx,
                   hostAllVars, shimVars>>

\* kms_client.enable_key answers: create_kms_key
EnableKey(o) ==
    /\ at = "kms.enable_key"
    /\ Requested("kms.enable_key",
                 << <<"KeyId", KeyIdOf(kms_key_metadata)>> >>)
    /\ Answered(o)
    /\ UNCHANGED <<trackedVars, managerOpsLeft, method, inner, before, issued,
                   queueIdx, hostAllVars, shimVars>>

\* kms_client.schedule_key_deletion answers: delete_kms_key
ScheduleKeyDeletion(o) ==
    /\ at = "kms.schedule_key_deletion"
    /\ Requested("kms.schedule_key_deletion",
                 << <<"KeyId", KeyIdOf(kms_key_metadata)>>,
                    <<"PendingWindowInDays", pending_window>> >>)
    /\ kms_key_metadata' = TrackedAfter(o, kms_key_metadata, None)
    /\ Answered(o)
    /\ UNCHANGED <<farm_id, queue_id, fleet_id, additional_queues,
                   managerOpsLeft, method, inner, before, issued, queueIdx,
                   hostAllVars, shimVars>>

\* bealine_client.create_farm answers: create_farm
CreateFarm(o) ==
    /\ at = "bealine.create_farm"
    /\ Requested("bealine.create_farm",
                 << <<"kmsKeyArn", ArnOf(kms_key_metadata)>> >>)
    /\ farm_id' = TrackedAfter(o, farm_id, IdOf("farm", issued + 1))
    /\ issued' = IssuedAfter(o)
    /\ Answered(o)
    /\ UNCHANGED <<kms_key_metadata, queue_id, fleet_id, additional_queues,
                   managerOpsLeft, method, inner, before, queueIdx,
                   hostAllVars, shimVars>>

\* bealine_client.delete_farm answers: delete_farm
DeleteFarm(o) ==
    /\ at = "bealine.delete_farm"
    /\ Requested("bealine.delete_farm", << <<"farmId", farm_id>> >>)
    /\ farm_id' = TrackedAfter(o, farm_id, None)
    /\ Answered(o)
    /\ UNCHANGED <<kms_key_metadata, queue_id, fleet_id, additional_queues,
                   managerOpsLeft, method, inner, before, issued, queueIdx,
                   hostAllVars, shimVars>>

\* bealine_client.create_queue answers: create_queue
CreateQueue(o) ==
    /\ at = "bealine.create_queue"
    /\ Requested("bealine.create_queue", << <<"farmId", farm_id>> >>)
    /\ queue_id' = TrackedAfter(o, queue_id, IdOf("queue", issued + 1))
    /\ issued' = IssuedAfter(o)
    /\ Answered(o)
    /\ UNCHANGED <<kms_key_metadata, farm_id, fleet_id, additional_queues,
                   managerOpsLeft, method, inner, before, queueIdx,
                   hostAllVars, shimVars>>

\* bealine_client.delete_queue answers: delete_queue
DeleteQueue(o) ==
    /\ at = "bealine.delete_queue"
    /\ Requested("bealine.delete_queue",
                 << <<"queueId", queue_id>>, <<"farmId", farm_id>> >>)
    /\ queue_id' = TrackedAfter(o, queue_id, None)
    /\ Answered(o)
    /\ UNCHANGED <<kms_key_metadata, farm_id, fleet_id, additional_queues,
                   managerOpsLeft, method, inner, before, issued, queueIdx,
                   hostAllVars, shimVars>>

\* bealine_client.create_fleet answers: create_fleet
CreateFleet(o) ==
    /\ at = "bealine.create_fleet"
    /\ Requested("bealine.create_fleet", << <<"farmId", farm_id>> >>)
    /\ fleet_id' = TrackedAfter(o, fleet_id, IdOf("fleet", issued + 1))
    /\ issued' = IssuedAfter(o)
    /\ Answered(o)
    /\ UNCHANGED <<kms_key_metadata, farm_id, queue_id, additional_queues,
                   managerOpsLeft, method, inner, before, queueIdx,
                   hostAllVars, shimVars>>

\* bealine_client.update_fleet answers: delete_fleet disables the fleet
UpdateFleet(o) ==
    /\ at = "bealine.update_fleet"
    /\ Requested("bealine.update_fleet",
                 << <<"farmId", farm_id>>, <<"fleetId", fleet_id>>,
                    <<"state", "DISABLED">> >>)
    /\ IF o = "ok" THEN Proceed("bealine.delete_fleet") ELSE ManagerRaise(o)
    /\ UNCHANGED <<trackedVars, managerOpsLeft, method, inner, before, issued,
                   queueIdx, hostAllVars, shimVars>>

\* bealine_client.delete_fleet answers: delete_fleet
DeleteFleet(o) ==
    /\ at = "bealine.delete_fleet"
    /\ Requested("bealine.delete_fleet",
                 << <<"farmId", farm_id>>, <<"fleetId", fleet_id>> >>)
    /\ fleet_id' = TrackedAfter(o, fleet_id, None)
    /\ Answered(o)
    /\ UNCHANGED <<kms_key_metadata, farm_id, queue_id, additional_queues,
                   managerOpsLeft, method, inner, before, issued, queueIdx,
                   hostAllVars, shimVars>>

(* ----------------- BealineManager: additional queues -------------------- *)

\* bealine_client.create_queue answers: create_additional_queue
AdditionalCreateQueue(o) ==
    /\ at = "additional.create_queue"
    /\ Requested("bealine.create_queue", << <<"farmId", farm_id>> >>)
    /\ issued' = IssuedAfter(o)
    /\ IF o = "ok" THEN Proceed("additional.get_queue") ELSE ManagerRaise(o)
    /\ UNCHANGED <<trackedVars, managerOpsLeft, method, inner, before,
                   queueIdx, hostAllVars, shimVars>>

\* bealine_client.get_queue answers: create_additional_queue records it
AdditionalGetQueue(o) ==
    /\ at = "additional.get_queue"
    /\ Requested("bealine.get_queue",
                 << <<"farmId", farm_id>>,
                    <<"queueId", IdOf("queue", issued)>> >>)
    /\ additional_queues' =
          IF o = "ok"
          THEN Append(additional_queues,
                      [ farmId |-> farm_id,
                        queueId |-> IdOf("queue", issued) ])
          ELSE additional_queues
    /\ Answered(o)
    /\ UNCHANGED <<kms_key_metadata, farm_id, queue_id, fleet_id,
                   managerOpsLeft, method, inner, before, issued, queueIdx,
                   hostAllVars, shimVars>>

\* AfterAdditionalDelete with the loop left at the first delete that raises
AfterAdditionalDeleteBreaks(o, visited) ==
    IF o = "ok" /\ visited < Len(additional_queues)
    THEN "additional.delete_queue" ELSE "return"

\* where delete_additional_queues is after it visited so many queues and
\* the last delete answered o: the except branch prints and continues
AfterAdditionalDelete(o, visited) ==
    IF visited < Len(additional_queues)
    THEN "additional.delete_queue" ELSE "return"

\* bealine_client.delete_queue answers for the next additional queue:
\* delete_additional_queues prints what was raised and goes on
AdditionalDeleteQueue(o) ==
    /\ at = "additional.delete_queue"
    /\ LET queue == additional_queues[queueIdx + 1]
           asked == Request("bealine.delete_queue",
                            << <<"farmId", queue.farmId>>,
                               <<"queueId", queue.queueId>> >>)
       IN  events' = events \o << asked >> \o
                        (IF o = "ok" THEN << >>
                         ELSE << Printed("delete queue exception") >>)
    /\ queueIdx' = queueIdx + 1
    /\ Proceed(AfterAdditionalDelete(o, queueIdx + 1))
    /\ UNCHANGED <<trackedVars, managerOpsLeft, method, inner, before, issued,
                   hostAllVars, shimVars>>

(* ------------ BealineManager: scaffolding and its cleanup --------------- *)

\* `if self.farm_id:` and the like: a tracked id that is set
Present(id) == id # None

\* cleanup_scaffolding from its last if: the key, when there is one
CleanupKey ==
    IF Truthy(kms_key_metadata) THEN Invoke("delete_kms_key", events)
    ELSE UNCHANGED <<events, inner>> /\ ManagerReturn

\* CleanupFleet without the delete of the fleet
CleanupFleetSkipped == Invoke("delete_farm", events)

\* cleanup_scaffolding inside `if self.farm_id`, from the fleet on
CleanupFleet ==
    IF Present(fleet_id) THEN Invoke("delete_fleet", events)
    ELSE Invoke("delete_farm", events)

\* cleanup_scaffolding once the additional queues are done with
CleanupFarm ==
    IF Present(farm_id)
    THEN IF Present(queue_id) THEN Invoke("delete_queue", events)
         ELSE CleanupFleet
    ELSE CleanupKey

\* the method the manager is in returns: the called method is done, or
\* create_scaffolding / cleanup_scaffolding goes on with its next statement
MethodReturns ==
    /\ at = "return"
    /\ CASE method = inner -> UNCHANGED <<events, inner>> /\ ManagerReturn
         [] method = "create_scaffolding" /\ inner = "create_kms_key" ->
               Invoke("create_farm", events)
         [] method = "create_scaffolding" /\ inner # "create_kms_key" ->
               UNCHANGED <<events, inner>> /\ Proceed("sleep")
         [] method = "cleanup_scaffolding"
              /\ inner = "delete_additional_queues" -> CleanupFarm
         [] method = "cleanup_scaffolding" /\ inner = "delete_queue" ->
               CleanupFleet
         [] method = "cleanup_scaffolding" /\ inner = "delete_fleet" ->
               Invoke("delete_farm", events)
         [] method = "cleanup_scaffolding" /\ inner = "delete_farm" ->
               CleanupKey
         [] method = "cleanup_scaffolding" /\ inner = "delete_kms_key" ->
               UNCHANGED <<events, inner>> /\ ManagerReturn
    /\ UNCHANGED <<trackedVars, managerOpsLeft, method, before, issued,
                   queueIdx, hostAllVars, shimVars>>

\* seconds create_scaffolding sleeps after a method
SleepAfter(m) == IF m = "create_farm" THEN 120 ELSE 15

\* AfterSleep with the fleet created before the queue
AfterSleepFleetFirst(m) ==
    CASE m = "create_farm" -> "create_fleet"
      [] m = "create_fleet" -> "create_queue"
      [] OTHER -> "update_queue"

\* the statement of create_scaffolding that follows the sleep after m
AfterSleep(m) ==
    CASE m = "create_farm" -> "create_queue"
      [] m = "create_queue" -> "create_fleet"
      [] OTHER -> "update_queue"

\* time.sleep returns: create_scaffolding goes on
Sleep ==
    /\ at = "sleep"
    /\ LET ev == Append(events, Slept(SleepAfter(inner)))
       IN  IF AfterSleep(inner) = "update_queue"
           THEN /\ events' = ev
                /\ inner' = method
                /\ Proceed("bealine.update_queue")
           ELSE Invoke(AfterSleep(inner), ev)
    /\ UNCHANGED <<trackedVars, managerOpsLeft, method, before, issued,
                   queueIdx, hostAllVars, shimVars>>

\* bealine_client.update_queue answers: the end of create_scaffolding
UpdateQueue(o) ==
    /\ at = "bealine.update_queue"
    /\ Requested("bealine.update_queue",
                 << <<"farmId", farm_id>>, <<"queueId", queue_id>>,
                    <<"fleetId", fleet_id>>, <<"priority", 1>> >>)
    /\ Answered(o)
    /\ UNCHANGED <<trackedVars, managerOpsLeft, method, inner, before, issued,
                   queueIdx, hostAllVars, shimVars>>

\* one BealineManager, with the worker host left as it was constructed
InitManager ==
    /\ Init
    /\ variant = "docker"
    /\ file_mappings = << >>
    /\ job_users = 1
    /\ ~given.no_install_service

NextManager ==
    \/ \E m \in Methods : ManagerCall(m)
    \/ \E o \in ClientOutcomes, shape \in MetadataShapes : CreateKey(o, shape)
    \/ \E o \in ClientOutcomes : EnableKey(o)
    \/ \E o \in ClientOutcomes : ScheduleKeyDeletion(o)
    \/ \E o \in ClientOutcomes : CreateFarm(o)
    \/ \E o \in ClientOutcomes : DeleteFarm(o)
    \/ \E o \in ClientOutcomes : CreateQueue(o)
    \/ \E o \in ClientOutcomes : DeleteQueue(o)
    \/ \E o \in ClientOutcomes : CreateFleet(o)
    \/ \E o \in ClientOutcomes : UpdateFleet(o)
    \/ \E o \in ClientOutcomes : DeleteFleet(o)
    \/ \E o \in ClientOutcomes : AdditionalCreateQueue(o)
    \/ \E o \in ClientOutcomes : AdditionalGetQueue(o)
    \/ \E o \in ClientOutcomes : AdditionalDeleteQueue(o)
    \/ MethodReturns
    \/ Sleep
    \/ \E o \in ClientOutcomes : UpdateQueue(o)

SpecManager == InitManager /\ [][NextManager]_vars

(* --------------------------- BealineClient ----------------------------- *)

\* methods callers use of the shim; only create_farm is defined by the class
ShimMethods == { "create_farm", "create_fleet", "create_queue", "get_queue" }

\* the methods BealineClient defines itself, which __getattr__ never sees
OwnMethods == { "create_farm" }

\* member names an input shape of the service model may hold
MemberNames == { "displayName", "name" }

\* keyword arguments of a call, as the items of the dict in their order
KwargsGiven ==
    LET dn  == <<"displayName", "one">>
        nm  == <<"name", "two">>
        arn == <<"kmsKeyArn", "arn">>
    IN  { << >>, <<dn>>, <<nm>>, <<arn>>, <<dn, arn>>, <<arn, dn>>,
          <<dn, nm>>, <<nm, dn, arn>> }

\* the keys of a dict
Keys(d) == { d[j][1] : j \in 1..Len(d) }

\* d[k] of a dict that holds k
Get(d, k) == LET j == CHOOSE j \in 1..Len(d) : d[j][1] = k IN d[j][2]

\* a dict after d.pop(k) of a key it holds
Pop(d, k) == SelectSeq(d, LAMBDA item : item[1] # k)

\* ShouldRename without the look for displayName in the model
ShouldRenameAlways(input_members) == "name" \in input_members

\* the condition of create_farm under which displayName becomes name
ShouldRename(input_members) ==
    "displayName" \notin input_members /\ "name" \in input_members

\* kwargs["name"] = kwargs.pop("displayName")
Renamed(kw) == DictSet(Pop(kw, "displayName"), "name", Get(kw, "displayName"))

\* an exception leaves the shim before or in the call of the real client
ShimRaise(e) ==
    /\ shimAt' = "idle"
    /\ shimStatus' = "raised"
    /\ shimError' = e

\* a caller calls m(**kw) of the shim, while the service model holds the
\* input members mem for the operation; a method the class does not define
\* is answered by __getattr__ with a function that passes everything on
ShimCall(m, kw, mem) ==
    /\ shimAt = "idle"
    /\ shimCallsLeft > 0
    /\ shimCallsLeft' = shimCallsLeft - 1
    /\ shimMethod' = m
    /\ kwargs' = kw
    /\ members' = mem
    /\ shimAt' = IF m \in OwnMethods THEN "lookup" ELSE "forward"
    /\ shimStatus' = "running"
    /\ shimError' = ""
    /\ outgoing' = kw
    /\ real_calls' = << >>
    /\ UNCHANGED <<managerVars, hostAllVars>>

\* what loading the service model may do
LookupOutcomes == { "ok", "DataNotFoundError" }

\* create_farm: _get_bealine_api_input_shape, then the rename
ShimLookup(o) ==
    /\ shimAt = "lookup"
    /\ IF o # "ok"
       THEN ShimRaise(o) /\ UNCHANGED outgoing
       ELSE IF ~ShouldRename(members)
       THEN /\ shimAt' = "forward"
            /\ UNCHANGED <<shimStatus, shimError, outgoing>>
       ELSE IF "displayName" \in Keys(kwargs)
       THEN /\ outgoing' = Renamed(kwargs)
            /\ shimAt' = "forward"
            /\ UNCHANGED <<shimStatus, shimError>>
       ELSE ShimRaise("KeyError") /\ UNCHANGED outgoing
    /\ UNCHANGED <<shimCallsLeft, shimMethod, kwargs, members, real_calls,
                   managerVars, hostAllVars>>

\* the call of the method of the same name of _real_client
ShimForward(o) ==
    /\ shimAt = "forward"
    /\ real_calls' = Append(real_calls, <<shimMethod, outgoing>>)
    /\ IF o = "ok"
       THEN /\ shimAt' = "idle"
            /\ shimStatus' = "returned"
            /\ UNCHANGED shimError
       ELSE ShimRaise(o)
    /\ UNCHANGED <<shimCallsLeft, shimMethod, kwargs, members, outgoing,
                   managerVars, hostAllVars>>

\* one BealineClient, with the worker host and the manager left as built
InitShim == InitManager

NextShim ==
    \/ \E m \in ShimMethods, kw \in KwargsGiven, mem \in SUBSET MemberNames :
           ShimCall(m, kw, mem)
    \/ \E o \in LookupOutcomes : ShimLookup(o)
    \/ \E o \in ClientOutcomes : ShimForward(o)

SpecShim == InitShim /\ [][NextShim]_vars

(* ------------------------ checked properties --------------------------- *)

\* whether the running operation has made an external call
Called(name) == \E j \in 1..Len(calls) : calls[j] = name

\* C1: dispatch retry of Instance.send_command.  When the dispatch succeeds
\* after k InvalidInstanceId failures (k in 0..9) the loop has made exactly
\* k + 1 dispatch attempts and slept exactly k times, 5 seconds each, and the
\* call goes on to the wait; when the dispatch failed with InvalidInstanceId
\* 10 times, the call has raised that error after exactly 10 attempts and 9
\* sleeps, with no wait and no fetch.
C1_DispatchRetry ==
    /\ dispatches <= 10
    /\ slept = 5 * sleeps
    /\ pc = "sc_wait" =>
          /\ failures \in 0..9
          /\ dispatches = failures + 1
          /\ sleeps = failures
    /\ failures = 10 =>
          /\ pc = "idle" /\ outcome = "raised" /\ error = "InvalidInstanceId"
          /\ dispatches = 10
          /\ sleeps = 9
          /\ waits = <<>> /\ fetches = 0 /\ result = None

\* the dispatch succeeded on the 10th attempt, after 9 sleeps
C1_Witness ==
    pc = "sc_wait" /\ failures = 9 /\ dispatches = 10 /\ sleeps = 9

\* C2: a dispatch failure with an error code other than InvalidInstanceId
\* reaches the caller on the attempt where it occurs: no sleep and no
\* dispatch follows it, and neither wait nor fetch is performed.
C2_OtherErrorPropagates ==
    (outcome = "raised" /\ error \in ClientErrorCodes \ { "InvalidInstanceId" }) =>
        /\ pc = "idle"
        /\ dispatches = failures + 1
        /\ sleeps = failures
        /\ waits = <<>> /\ fetches = 0 /\ result = None

\* another error code ended a call that had retried twice before
C2_Witness ==
    /\ outcome = "raised" /\ error = "AccessDeniedException"
    /\ failures = 2 /\ dispatches = 3

\* C3: start() on a host whose resource id is set raises a usage error,
\* launches no second compute resource and leaves the resource id unchanged.
\* (Any exception is accepted here as the usage error.)
C3_StartOnStartedRejected ==
    (op = "start" /\ idAtCall # None) =>
        /\ instance_id = IF variant = "ec2" THEN idAtCall ELSE None
        /\ container_id = IF variant = "docker" THEN idAtCall ELSE None
        /\ ~Called("ec2.run_instances")
        /\ ~Called("run_container.sh")
        /\ pc = "idle" => outcome = "raised"

\* C4: send_command on a host whose resource id is unset raises a usage
\* error at once, with no dispatch request and no process invocation; the
\* container variant runs at most one process per send_command call.
C4_SendCommandNeedsStart ==
    /\ (op = "send_command" /\ idAtCall = None) =>
          /\ dispatches = 0
          /\ execs = 0
          /\ pc = "idle" => (outcome = "raised" /\ error = "AssertionError")
    /\ execs <= 1

\* C5: stop() on a host whose resource id is unset raises a usage error
\* without any termination call.
C5_StopNeedsStart ==
    (op = "stop" /\ idAtCall = None) =>
        /\ pc = "idle" /\ outcome = "raised" /\ error = "AssertionError"
        /\ ~Called("ec2.terminate_instances")
        /\ ~Called("docker exec")
        /\ ~Called("docker container stop")

\* C6: Instance.send_command returns a CommandResult only for a command
\* that was in a terminal state when its result was fetched.
C6_ResultOnlyWhenTerminal ==
    (variant = "ec2" /\ result # None) =>
        (fetched # None /\ fetched[1].Status \in TerminalStatuses)

\* C7: once a dispatch has succeeded the terminal-state wait is started
\* exactly once, with delay 5 and 60 attempts unless the caller overrode
\* them; whether it completed or raised a waiter error the result is then
\* fetched exactly once, and a waiter error never reaches the caller.
C7_WaitOnceFetchOnce ==
    /\ Len(waits) <= 1 /\ fetches <= 1
    /\ (cmdStatus # "none" /\ pc # "sc_wait") <=> Len(waits) = 1
    /\ fetches = 1 => Len(waits) = 1
    /\ Len(waits) = 1 =>
          /\ waits[1].config.Delay =
                IF waitArgs[1] = None THEN 5 ELSE waitArgs[1][1]
          /\ waits[1].config.MaxAttempts =
                IF waitArgs[2] = None THEN 60 ELSE waitArgs[2][1]
          /\ waits[1].raised \in { "", "WaiterError" } =>
                \/ pc = "sc_fetch" /\ fetches = 0
                \/ pc # "sc_fetch" /\ fetches = 1
    /\ (outcome = "raised" /\ error = "WaiterError") => command = ""

\* a wait that raised a waiter error was followed by one fetch and a return
C7_Witness ==
    /\ op = "send_command" /\ outcome = "returned"
    /\ Len(waits) = 1 /\ waits[1].raised = "WaiterError" /\ fetches = 1
    /\ waitArgs = <<None, None>>

\* C8: Instance.send_command never raises because of the response code: for
\* every fetched response, whatever its code, it returns a CommandResult
\* whose exit_code, stdout and stderr are the response's code and outputs.
C8_ResultIsFetchedResponse ==
    (variant = "ec2" /\ fetched # None) =>
        /\ result = Some([exit_code |-> fetched[1].ResponseCode,
                          stdout |-> fetched[1].StandardOutputContent,
                          stderr |-> fetched[1].StandardErrorContent])
        /\ pc \in { "sc_done", "idle" }
        /\ (op = "send_command" /\ pc = "idle") => outcome = "returned"

\* a response with code -1 came back to the caller as a CommandResult
C8_Witness ==
    /\ op = "send_command" /\ outcome = "returned"
    /\ result # None /\ result[1].exit_code = -1 /\ result[1].stdout = "out"

\* C9: a command that exits with a non-zero code in the container comes back
\* from DockerContainerWorker.send_command as a CommandResult carrying that
\* code, and no exception is raised.
C9_ContainerFailureIsData ==
    (variant = "docker" /\ op = "send_command" /\ pc = "idle"
        /\ exitCode # None /\ exitCode[1] # 0) =>
        /\ outcome = "returned"
        /\ result # None /\ result[1].exit_code = exitCode[1]

\* C10: with two file mappings whose source paths share a basename,
\* Instance.start() raises a configuration error before any object is put
\* into the staging bucket and before any instance is launched.
C10_DuplicateNamesRejected ==
    (variant = "ec2" /\ op = "start" /\ FirstDuplicate(file_mappings) # 0) =>
        /\ ~Called("s3.put_object")
        /\ ~Called("ec2.run_instances")
        /\ pc = "idle" => (outcome = "raised" /\ error = "AssertionError")

\* C11: when the instance properties carry an override image id, the
\* instance is launched with exactly that image id and start() makes no
\* parameter lookup; the latest-image parameter is looked up only when no
\* override was supplied.
C11_OverrideImageUsed ==
    (variant = "ec2" /\ op = "start" /\ override_ami_id # None) =>
        /\ ~Called("ssm.get_parameters")
        /\ Called("ec2.run_instances") => imageId = override_ami_id

\* the step appends an external call to those of the running operation
NewCall(name) == calls' = Append(calls, name)

\* C12: the image id is resolved once.  A parameter lookup is made only
\* while no value is memoized; a lookup that succeeds memoizes its value,
\* which never changes afterwards, and every launch request carries the
\* memoized value; a lookup that does not return exactly one parameter (or
\* fails) raises to the caller, memoizes nothing, and no launch request is
\* issued by that start().
C12_ImageResolvedOnce ==
    [][ /\ ami_id # None => ami_id' = ami_id
        /\ NewCall("ssm.get_parameters") =>
              /\ ami_id = None
              /\ ami_id' = None =>
                    /\ pc' = "idle" /\ outcome' = "raised"
                    /\ error' \in { "AssertionError", "ClientError" }
                    /\ \A j \in 1..Len(calls') : calls'[j] # "ec2.run_instances"
        /\ NewCall("ec2.run_instances") =>
              /\ ami_id # None /\ ami_id' = ami_id
              /\ instance_id' # instance_id => imageId' = ami_id
      ]_vars

\* a later start() launched with the memoized image id, without a lookup
C12_Witness ==
    /\ op = "start" /\ Called("ec2.run_instances")
    /\ ~Called("ssm.get_parameters")
    /\ imageId = Some("ami-latest") /\ instance_id # None

\* the bootstrap commands that create the agent and job accounts and grant
\* the sudo rule
AccountCmds ==
    { "groupadd_agent", "useradd_agent", "groupadd_job", "useradd_job",
      "usermod_agent", "sudoers_rule" }

\* C13: in the bootstrap instructions of a launch request, the commands
\* creating the agent group and user and every job user and granting the
\* sudo rule come first, then the staged-file copy and ownership commands,
\* and the caller-supplied startup commands come after every generated one.
C13_BootstrapOrder ==
    \A a, b \in 1..Len(userData) :
        /\ (userData[a][1] \in AccountCmds /\ userData[b][1] = "copy_and_chown")
              => a < b
        /\ (userData[a][1] # "caller" /\ userData[b][1] = "caller") => a < b

\* the steps EC2InstanceWorker.start() takes on the configured host, in the
\* order the claim gives them
StartSteps ==
    [j \in 1..Len(file_mappings) |-> "s3.put_object"] \o
    << "ec2.run_instances", "ec2.wait_status_ok", "send_command:cloud-init",
       "send_command:configure", "send_command:start_agent" >>

\* the steps the running operation has issued, the image lookup left aside
StepsIssued == SelectSeq(calls, LAMBDA c : c # "ssm.get_parameters")

\* C14: EC2InstanceWorker.start() stages the files, launches the instance,
\* waits for a healthy status, then sends the boot-completion, the configure
\* and the agent start command, in that order; a step is issued only after
\* every earlier one succeeded (a command: returned exit code 0); start()
\* returns only after all of them, the last with exit code 0, and a non-zero
\* exit code (1 or -1) makes it raise with the CommandResult at hand.
C14_StartOrder ==
    /\ [](  (variant = "ec2" /\ op = "start") =>
              /\ Len(StepsIssued) <= Len(StartSteps)
              /\ StepsIssued = SubSeq(StartSteps, 1, Len(StepsIssued))
              /\ outcome = "returned" =>
                    /\ StepsIssued = StartSteps
                    /\ result # None /\ result[1].exit_code = 0
              /\ (pc = "idle" /\ result # None /\ result[1].exit_code # 0) =>
                    /\ outcome = "raised"
                    /\ error \in { "Exception", "AssertionError" } )
    /\ [][ (\/ NewCall("send_command:configure")
            \/ NewCall("send_command:start_agent")
            \/ (variant = "ec2" /\ op = "start" /\ pc # "idle"
                  /\ outcome' = "returned")) =>
                (result # None /\ result[1].exit_code = 0) ]_vars

\* start() returned on a host with two files to stage
C14_Witness ==
    /\ variant = "ec2" /\ op = "start" /\ outcome = "returned"
    /\ Len(file_mappings) = 2 /\ StepsIssued = StartSteps

\* a string with its trailing line ends (newlines, carriage returns) removed
Candidate(str) ==
    LET keep == { j \in 1..Len(str) : str[j] \notin { "\n", "\r" } }
    IN  IF keep = {} THEN << >>
        ELSE SubSeq(str, 1, CHOOSE j \in keep : \A k \in keep : k <= j)

\* 'worker-' followed by exactly 32 characters from 0-9a-f
WellFormedId(str) ==
    /\ Len(str) = 7 + 32
    /\ SubSeq(str, 1, 7) = << "w", "o", "r", "k", "e", "r", "-" >>
    /\ \A j \in 8..39 : str[j] \in HexLower

\* C15: a read of DockerContainerWorker.worker_id makes at most 6 read
\* attempts, 10 seconds apart; a read command that fails is retried, never
\* raised to the caller as such; when the 6th attempt has failed too, the
\* read raises and no identifier is returned.
C15_PollingBounded ==
    (variant = "docker" /\ op = "worker_id") =>
        /\ attempts \in 1..6
        /\ waited = 10 * (attempts - 1)
        /\ Len(calls) \in { attempts - 1, attempts }
        /\ error # "CalledProcessError"
        /\ error = "RetryBudgetExhausted" =>
              /\ attempts = 6 /\ Len(calls) = 6
              /\ pc = "idle" /\ outcome = "raised" /\ worker_id = None
        /\ (pc = "idle" /\ attempts = 6 /\ exitCode # None /\ exitCode[1] # 0) =>
              /\ outcome = "raised" /\ error = "RetryBudgetExhausted"
              /\ worker_id = None /\ result = None

\* six read attempts failed, 50 seconds were slept, and the read raised
C15_Witness ==
    /\ variant = "docker" /\ op = "worker_id"
    /\ error = "RetryBudgetExhausted" /\ attempts = 6 /\ waited = 50

\* C16: the poll stops at the first success.  On a started container host
\* (one job user) a failed read attempt below the budget is followed by a
\* sleep of 10 seconds and another attempt, and the first attempt whose
\* command succeeds ends the poll; when that attempt, the (k+1)-th, printed
\* a valid identifier, the read returns it after exactly k + 1 attempts.
C16_PollStopsAtFirstSuccess ==
    /\ []( (/\ variant = "docker" /\ op = "worker_id" /\ pc = "idle"
            /\ exitCode = Some(0) /\ result # None
            /\ WellFormedId(Candidate(result[1].stdout))) =>
              /\ outcome = "returned"
              /\ worker_id = Some(Candidate(result[1].stdout))
              /\ attempts \in 1..6 /\ Len(calls) = attempts
              /\ waited = 10 * (attempts - 1)
              /\ job_users = 1 )
    /\ [][ (/\ variant = "docker" /\ cont = "worker_id" /\ pc = "docker_exec"
            /\ NewCall("docker exec") /\ attempts < 6) =>
              \/ /\ pc' = "docker_exec"
                 /\ attempts' = attempts + 1 /\ waited' = waited + 10
              \/ exitCode' = Some(0) /\ pc' = "idle"
              \/ error' = "OSError" /\ pc' = "idle" ]_vars

\* the state file was absent for 3 polls and held a valid id on the 4th
C16_Witness ==
    /\ variant = "docker" /\ op = "worker_id" /\ outcome = "returned"
    /\ job_users = 1 /\ attempts = 4 /\ Len(calls) = 4 /\ waited = 30
    /\ worker_id = Some(ValidId)

\* C17: in the container worker-id poll, an attempt whose read command
\* succeeds but prints something that is not a well-formed identifier is
\* retried while the budget lasts: the read ends on such an output only
\* with its 6th attempt.
C17_MalformedOutputRetried ==
    (/\ variant = "docker" /\ op = "worker_id" /\ pc = "idle"
     /\ result # None /\ ~WellFormedId(Candidate(result[1].stdout))) =>
        attempts = 6

\* C18: a read of EC2InstanceWorker.worker_id sends exactly one command and
\* never polls; it returns the output without its trailing line ends when
\* the exit code is 0 and that string is a well-formed identifier, and
\* otherwise raises an assertion failure, the CommandResult at hand.
C18_VmReadsOnce ==
    (variant = "ec2" /\ op = "worker_id") =>
        /\ calls = << "send_command:worker_id" >>
        /\ attempts = 0 /\ waited = 0
        /\ fetches <= 1 /\ Len(waits) <= 1
        /\ outcome = "returned" => result # None
        /\ (pc = "idle" /\ result # None) =>
              IF /\ result[1].exit_code = 0
                 /\ WellFormedId(Candidate(result[1].stdout))
              THEN /\ outcome = "returned"
                   /\ worker_id = Some(Candidate(result[1].stdout))
              ELSE /\ outcome = "raised" /\ error = "AssertionError"
                   /\ worker_id = None

\* the instance printed the id with a CR LF line end, and the id came back
C18_Witness ==
    /\ variant = "ec2" /\ op = "worker_id" /\ outcome = "returned"
    /\ idAtCall # None
    /\ result[1].stdout = ValidId \o << "\r", "\n" >>
    /\ worker_id = Some(ValidId)

\* C19: both host variants accept a candidate (the output of a read command
\* that exited with 0, trailing line ends removed) iff it is 'worker-'
\* followed by exactly 32 characters from 0-9a-f, and return exactly it.
C19_IdAcceptance ==
    (/\ op = "worker_id" /\ pc = "idle"
     /\ result # None /\ result[1].exit_code = 0) =>
        /\ outcome = "returned" <=> WellFormedId(Candidate(result[1].stdout))
        /\ outcome = "returned" =>
              worker_id = Some(Candidate(result[1].stdout))
        /\ outcome # "returned" => worker_id = None

\* the container variant rejected an identifier in uppercase hex
C19_Witness ==
    /\ variant = "docker" /\ op = "worker_id" /\ outcome = "raised"
    /\ result # None /\ result[1].exit_code = 0
    /\ result[1].stdout = WorkerPrefix \o Repeat("A", 32) \o << "\n" >>

\* C20: DockerContainerWorker.start() on a host configured with a number
\* of job users other than one raises an assertion failure before the
\* build script is launched, and the container id stays unset.
C20_JobUsersAsserted ==
    (variant = "docker" /\ job_users # 1) =>
        /\ container_id = None /\ started = 0
        /\ op = "start" =>
              /\ pc = "idle" /\ outcome = "raised" /\ error = "AssertionError"
              /\ ~Called("run_container.sh")
              /\ staged = << >>

\* start() was refused on a host configured with two job users
C20_Witness ==
    /\ variant = "docker" /\ op = "start" /\ job_users = 2
    /\ outcome = "raised" /\ error = "AssertionError"

\* two of the configured source paths have the same file name
SharedBasename ==
    \E j, k \in 1..Len(file_mappings) :
        j < k /\ Basename(file_mappings[j]) = Basename(file_mappings[k])

\* C21: DockerContainerWorker.start() on a host with two file mappings
\* whose source paths share a basename raises before the build script is
\* launched (the assertion on the staged paths, once the build context was
\* copied), and the container id stays unset.
C21_DockerDuplicateNamesRejected ==
    (variant = "docker" /\ SharedBasename) =>
        /\ container_id = None /\ started = 0
        /\ op = "start" =>
              /\ pc = "idle" /\ outcome = "raised"
              /\ ~Called("run_container.sh")
              /\ (job_users = 1 /\ staged # << >>) => error = "AssertionError"
              /\ Len(staged) < Len(file_mappings)

\* the first file was staged and the second one refused
C21_Witness ==
    /\ variant = "docker" /\ op = "start" /\ job_users = 1
    /\ file_mappings = << <<"a", "foo.txt">>, <<"b", "foo.txt">> >>
    /\ staged = << "foo.txt" >>
    /\ outcome = "raised" /\ error = "AssertionError"

\* C22: DockerContainerWorker.stop() on a started host sends the
\* termination-signal command first and invokes the container stop only
\* after that command returned with exit code 0; the container id is
\* cleared only when the container stop succeeded, and when either step
\* fails stop() raises and the container id is left set.
C22_DockerStopOrder ==
    (variant = "docker" /\ op = "stop" /\ idAtCall # None) =>
        /\ calls \in { << >>, << "docker exec" >>,
                        << "docker exec", "docker container stop" >> }
        /\ (pc = "docker_stop" \/ Called("docker container stop")) =>
              (result # None /\ result[1].exit_code = 0)
        /\ pc = "idle" =>
              IF outcome = "returned"
              THEN /\ container_id = None
                   /\ calls = << "docker exec", "docker container stop" >>
              ELSE /\ outcome = "raised" /\ container_id = idAtCall
        /\ pc # "idle" => container_id = idAtCall

\* the container stop failed after the signal was delivered: the id is kept
C22_Witness ==
    /\ variant = "docker" /\ op = "stop" /\ idAtCall # None
    /\ outcome = "raised" /\ Called("docker container stop")
    /\ container_id = idAtCall

\* C23: Instance.stop() on a started host issues exactly one terminate
\* request, naming the instance id it owns, and then clears the instance
\* id; when the request raises, stop() raises and the instance id is left
\* as it was.
C23_VmStop ==
    (variant = "ec2" /\ op = "stop" /\ idAtCall # None) =>
        /\ pc = "idle"
        /\ calls = << "ec2.terminate_instances" >>
        /\ idAtCall \in released
        /\ IF outcome = "returned" THEN instance_id = None
           ELSE outcome = "raised" /\ instance_id = idAtCall

\* the terminate request failed and the instance is still owned
C23_Witness ==
    /\ variant = "ec2" /\ op = "stop" /\ idAtCall # None
    /\ outcome = "raised" /\ instance_id = idAtCall /\ launched = 1

\* C24: between operations, every compute resource the host has launched
\* is the one its resource id names or one the host has asked to terminate
\* or stop.
C24_NoOrphans ==
    pc = "idle" =>
        /\ \A n \in 1..launched :
              InstanceIdOf(n) = instance_id \/ InstanceIdOf(n) \in released
        /\ \A n \in 1..started :
              ContainerIdOf(n) = container_id \/ ContainerIdOf(n) \in released

\* the worker's own configuration
OwnConfiguration ==
    Configuration(job_users, file_mappings, no_install_service)

\* C25: the configuration object the caller passed keeps the value it was
\* passed with; the configuration of a DockerContainerWorker is that value
\* with no_install_service true and the configuration of an
\* EC2InstanceWorker is that value; no operation changes either.
C25_ConfigurationNeverMutated ==
    /\ [](/\ caller_configuration = given
          /\ OwnConfiguration =
                IF variant = "docker" THEN Configuration(given.job_users,
                                               given.file_mappings, TRUE)
                ELSE given)
    /\ [][/\ OwnConfiguration' = OwnConfiguration
          /\ caller_configuration' = caller_configuration]_vars

\* a container worker built from a configuration that installs the
\* service was started and its worker id read: the caller's object still
\* says so, the worker's copy does not
C25_Witness ==
    /\ variant = "docker" /\ opsLeft = 0 /\ pc = "idle"
    /\ caller_configuration.no_install_service = FALSE
    /\ no_install_service = TRUE
    /\ op = "worker_id" /\ worker_id # None

\* a start() of a virtual machine raised after its launch request had
\* succeeded: it had gone on to the wait for the instance status
FailedAfterLaunch ==
    /\ variant = "ec2" /\ op = "start"
    /\ pc = "idle" /\ outcome = "raised"
    /\ Called("ec2.wait_status_ok")

\* C37: when start() of a virtual machine raises after its launch request
\* succeeded (in the wait for the instance status, in the cloud-init
\* command or its exit code, in the configure or start command of the
\* agent), the instance id is that of the instance just launched, which
\* nobody has asked to terminate; and a stop() that follows makes one
\* terminate request, for that instance and no other.
C37_FailedStartKeepsInstance ==
    /\ [](FailedAfterLaunch =>
            /\ launched >= 1
            /\ instance_id = <<"i", launched>>
            /\ instance_id \notin released)
    /\ [][(FailedAfterLaunch /\ op' = "stop") =>
            /\ calls' = << "ec2.terminate_instances" >>
            /\ released' = released \cup { <<"i", launched>> }
            /\ launched' = launched]_vars

\* start() raised on the exit code of the cloud-init command, with the
\* launched instance owned and an operation still to come
C37_Witness ==
    /\ FailedAfterLaunch /\ error = "Exception"
    /\ Called("send_command:cloud-init")
    /\ idAtCall = None /\ instance_id = <<"i", 1>>
    /\ opsLeft > 0

\* a start() of a virtual machine was rejected by the assertion that opens
\* _launch_instance, an instance being launched already
StartRejected ==
    /\ variant = "ec2" /\ op = "start" /\ idAtCall # None
    /\ pc = "idle" /\ outcome = "raised" /\ error = "AssertionError"

\* C38: a start() of an EC2InstanceWorker that is rejected because an
\* instance is already launched has put nothing into the staging bucket,
\* and the step by which such a start() begins leaves
\* props.user_data_commands as it was.
C38_RejectedStartNoEffects ==
    /\ [](StartRejected => ~Called("s3.put_object"))
    /\ [][(variant = "ec2" /\ pc = "idle" /\ instance_id # None
             /\ op' = "start" /\ pc' # "idle") =>
            user_data_commands' = user_data_commands]_vars

\* a read of the worker id of a container worker
DockerRead == variant = "docker" /\ op = "worker_id"

\* C39: in a read of the worker id of a container worker, the only
\* exception got_worker_id catches and wait_for retries after is
\* CalledProcessError: every attempt but the running or last one ended in
\* one.  An OSError of docker exec leaves the read from the attempt it is
\* raised in, with no wait after it and no further attempt.  A read on a
\* worker whose container id is unset raises the AssertionError of
\* send_command on the first attempt: no command is run, nothing is
\* caught, nothing is waited.
C39_OnlyFailedCommandRetried ==
    DockerRead =>
        /\ \A k \in 1..Len(caught) : caught[k] = "CalledProcessError"
        /\ Len(caught) \in { attempts - 1, attempts }
        /\ pc # "idle" => Len(caught) = attempts - 1
        /\ waited = interval_s * (attempts - 1)
        /\ error = "OSError" =>
              /\ pc = "idle" /\ outcome = "raised"
              /\ Len(caught) = attempts - 1
              /\ Len(calls) = attempts
        /\ idAtCall = None =>
              /\ pc = "idle" /\ outcome = "raised"
              /\ error = "AssertionError"
              /\ attempts = 1 /\ waited = 0
              /\ calls = << >> /\ caught = << >>

\* docker exec could not be run in the third attempt of a read, after two
\* attempts that ended in CalledProcessError
C39_Witness ==
    /\ DockerRead /\ pc = "idle" /\ error = "OSError"
    /\ attempts = 3 /\ waited = 20
    /\ caught = << "CalledProcessError", "CalledProcessError" >>

(* ------------------ checked properties: BealineManager ------------------ *)

\* the requests among the events of the last call, and their names
IsRequest(e) == e[1] = "request"
RequestsMade == SelectSeq(events, IsRequest)
NamesOf(ev) == [k \in 1..Len(ev) |-> ev[k][2]]

\* how often the last call invoked method m
TimesInvoked(m) ==
    Cardinality({ k \in 1..Len(events) :
                    events[k][1] = "invoke" /\ events[k][2] = m })

\* what the manager tracked when the last call began
KeyBefore == before[1]
FarmBefore == before[2]
QueueBefore == before[3]
FleetBefore == before[4]

\* the key metadata the last call began with holds the key k
KeyBeforeHolds(k) == KeyBefore # None /\ k \in KeyBefore[1].keys

\* the last call was of m and found its prerequisite missing
CreateUnprepared(m) ==
    /\ method = m
    /\ \/ m = "create_farm" /\ ~KeyBeforeHolds("Arn")
       \/ m \in { "create_queue", "create_fleet" } /\ FarmBefore = None

\* C26: create_farm called without key metadata holding an Arn, and
\* create_queue or create_fleet called without a farm id, raise without
\* any request to a client and leave what the manager tracks as it was,
\* so an id that was None is still None.
C26_CreatePrerequisites ==
    \A m \in { "create_farm", "create_queue", "create_fleet" } :
        CreateUnprepared(m) =>
            /\ at = "idle" /\ status = "raised"
            /\ managerError = "Exception"
            /\ RequestsMade = << >>
            /\ trackedVars = before

\* create_farm was refused with key metadata that holds a KeyId only
C26_Witness ==
    /\ method = "create_farm" /\ status = "raised"
    /\ KeyBefore # None /\ KeyBefore[1].keys = { "KeyId" }
    /\ farm_id = None /\ RequestsMade = << >>

\* the last call was of delete method m and found no resource to delete
DeleteUnprepared(m) ==
    /\ method = m
    /\ \/ m = "delete_kms_key" /\ ~KeyBeforeHolds("KeyId")
       \/ m = "delete_farm" /\ FarmBefore = None
       \/ m = "delete_queue" /\ (FarmBefore = None \/ QueueBefore = None)
       \/ m = "delete_fleet" /\ (FarmBefore = None \/ FleetBefore = None)

\* C27: delete_kms_key called without key metadata holding a KeyId,
\* delete_farm without a farm id, delete_queue without both a farm id and
\* a queue id, and delete_fleet without both a farm id and a fleet id each
\* raise without any request to a client.
C27_DeletePrerequisites ==
    \A m \in { "delete_kms_key", "delete_farm", "delete_queue",
                "delete_fleet" } :
        DeleteUnprepared(m) =>
            /\ at = "idle" /\ status = "raised"
            /\ managerError = "Exception"
            /\ RequestsMade = << >>
            /\ trackedVars = before

\* delete_fleet was refused on a manager with a farm and no fleet
C27_Witness ==
    /\ method = "delete_fleet" /\ status = "raised"
    /\ FarmBefore # None /\ FleetBefore = None
    /\ RequestsMade = << >>

\* the one request a delete method makes to delete what it names
DeleteRequestOf(m) ==
    CASE m = "delete_kms_key" ->
            Request("kms.schedule_key_deletion",
                    << <<"KeyId", IdOf("key", KeyBefore[1].key)>>,
                       <<"PendingWindowInDays", 7>> >>)
      [] m = "delete_farm" ->
            Request("bealine.delete_farm", << <<"farmId", FarmBefore>> >>)
      [] m = "delete_queue" ->
            Request("bealine.delete_queue",
                    << <<"queueId", QueueBefore>>,
                       <<"farmId", FarmBefore>> >>)
      [] m = "delete_fleet" ->
            Request("bealine.delete_fleet",
                    << <<"farmId", FarmBefore>>,
                       <<"fleetId", FleetBefore>> >>)

\* the requests of the last call that carry the name of r
Naming(r) == SelectSeq(RequestsMade, LAMBDA e : e[2] = r[2])

\* C28: a create method that returned has stored the metadata or id the
\* service answered with; a delete method that returned has cleared the
\* tracked value after exactly one delete request naming the stored id
\* (the key with a window of 7 days); a create or delete method that
\* raised a ClientError has left what the manager tracks as it was.
C28_TrackedOnlyOnSuccess ==
    /\ (status = "returned" /\ method = "create_kms_key") =>
          (kms_key_metadata # None /\ kms_key_metadata[1].key = issued)
    /\ (status = "returned" /\ method = "create_farm") =>
          farm_id = IdOf("farm", issued)
    /\ (status = "returned" /\ method = "create_queue") =>
          queue_id = IdOf("queue", issued)
    /\ (status = "returned" /\ method = "create_fleet") =>
          fleet_id = IdOf("fleet", issued)
    /\ \A m \in { "delete_kms_key", "delete_farm", "delete_queue",
                   "delete_fleet" } :
          (status = "returned" /\ method = m) =>
              /\ Naming(DeleteRequestOf(m)) = << DeleteRequestOf(m) >>
              /\ m = "delete_kms_key" => kms_key_metadata = None
              /\ m = "delete_farm" => farm_id = None
              /\ m = "delete_queue" => queue_id = None
              /\ m = "delete_fleet" => fleet_id = None
    /\ (/\ status = "raised" /\ managerError = "ClientError"
        /\ method \in { "create_kms_key", "create_farm", "create_queue",
                        "create_fleet", "delete_kms_key", "delete_farm",
                        "delete_queue", "delete_fleet" }) =>
          trackedVars = before

\* the key of the last call was there, by the test cleanup makes
KeyWasPresent == KeyBefore # None /\ KeyBefore[1].keys # {}

\* C29: a cleanup_scaffolding that returned has invoked delete_kms_key,
\* delete_farm, delete_queue and delete_fleet once each for the resources
\* that were present when it was called, and not at all for the others.
C29_CleanupDeletesWhatIsPresent ==
    (method = "cleanup_scaffolding" /\ status = "returned") =>
        /\ TimesInvoked("delete_kms_key") = IF KeyWasPresent THEN 1 ELSE 0
        /\ TimesInvoked("delete_farm") = IF FarmBefore # None THEN 1 ELSE 0
        /\ TimesInvoked("delete_queue") = IF QueueBefore # None THEN 1 ELSE 0
        /\ TimesInvoked("delete_fleet") = IF FleetBefore # None THEN 1 ELSE 0

\* the steps of create_scaffolding among the events: the create methods
\* invoked, the sleeps, the update_queue request
IsStep(e) ==
    \/ e[1] = "invoke"
    \/ e[1] = "sleep"
    \/ e[1] = "request" /\ e[2] = "bealine.update_queue"

StepsTaken == NamesOf(SelectSeq(events, IsStep))

ScaffoldingSteps ==
    << "create_kms_key", "create_farm", "sleep", "create_queue", "sleep",
       "create_fleet", "sleep", "bealine.update_queue" >>

ScaffoldingRequests ==
    << "kms.create_key", "kms.enable_key", "bealine.create_farm",
       "bealine.create_queue", "bealine.create_fleet",
       "bealine.update_queue" >>

IsPrefix(short, long) ==
    Len(short) <= Len(long) /\ SubSeq(long, 1, Len(short)) = short

\* C30: create_scaffolding takes its steps in the order KMS key, farm,
\* pause, queue, pause, fleet, pause, update_queue, each once; a call that
\* returned took them all, made each creating request once, and its
\* update_queue request carried the farm, queue and fleet ids created by
\* this call with priority 1; a call that raised stopped at the step that
\* raised.
C30_ScaffoldingOrder ==
    method = "create_scaffolding" =>
        /\ IsPrefix(StepsTaken, ScaffoldingSteps)
        /\ status = "raised" => at = "idle"
        /\ status = "returned" =>
              /\ StepsTaken = ScaffoldingSteps
              /\ NamesOf(RequestsMade) = ScaffoldingRequests
              /\ farm_id \notin { None, FarmBefore }
              /\ queue_id \notin { None, QueueBefore }
              /\ fleet_id \notin { None, FleetBefore }
              /\ events[Len(events)] =
                    Request("bealine.update_queue",
                            << <<"farmId", farm_id>>,
                               <<"queueId", queue_id>>,
                               <<"fleetId", fleet_id>>,
                               <<"priority", 1>> >>)

\* a second create_scaffolding on the same manager went through
C30_Witness ==
    /\ method = "create_scaffolding" /\ status = "returned"
    /\ FarmBefore # None /\ farm_id # FarmBefore
    /\ StepsTaken = ScaffoldingSteps

\* the requests of the last call about its fleet
IsFleetRequest(e) ==
    e[1] = "request"
      /\ e[2] \in { "bealine.update_fleet", "bealine.delete_fleet" }

FleetRequests == SelectSeq(events, IsFleetRequest)

\* what delete_fleet asks of the service, in order
DisableThenDelete ==
    << Request("bealine.update_fleet",
               << <<"farmId", FarmBefore>>, <<"fleetId", FleetBefore>>,
                  <<"state", "DISABLED">> >>),
       Request("bealine.delete_fleet",
               << <<"farmId", FarmBefore>>, <<"fleetId", FleetBefore>> >>) >>

\* C31: delete_fleet, called by the caller or by cleanup_scaffolding,
\* asks update_fleet with state DISABLED and then delete_fleet, both with
\* the stored farm id and fleet id; a delete_fleet that returned made both
\* requests; when the disabling request fails the method raises, the
\* delete request is not made and fleet_id stays set.
C31_DisableBeforeDelete ==
    method \in { "delete_fleet", "cleanup_scaffolding" } =>
        /\ IsPrefix(FleetRequests, DisableThenDelete)
        /\ (method = "delete_fleet" /\ status = "returned") =>
              FleetRequests = DisableThenDelete
        /\ fleet_id # FleetBefore =>
              (fleet_id = None /\ FleetRequests = DisableThenDelete)
        /\ (at = "idle" /\ Len(FleetRequests) = 1) =>
              /\ status = "raised" /\ managerError = "ClientError"
              /\ fleet_id = FleetBefore /\ fleet_id # None

\* the disabling request failed: nothing was deleted
C31_Witness ==
    /\ method = "delete_fleet" /\ status = "raised"
    /\ Len(FleetRequests) = 1 /\ fleet_id # None

\* C34: once cleanup_scaffolding has returned normally, farm_id, queue_id,
\* fleet_id and kms_key_metadata are all None, whatever creates and deletes
\* the manager went through before.
C34_CleanupLeavesNothing ==
    (method = "cleanup_scaffolding" /\ at = "idle" /\ status = "returned")
        => /\ farm_id = None
           /\ queue_id = None
           /\ fleet_id = None
           /\ kms_key_metadata = None

\* the methods cleanup_scaffolding invoked so far, in order
IsInvoke(e) == e[1] = "invoke"
InvokedNames == NamesOf(SelectSeq(events, IsInvoke))

\* the place of a delete method, and of a delete request, in the order of
\* dependency: queues, fleet, farm, key
Rank(name) ==
    CASE name \in { "delete_additional_queues" } -> 1
      [] name \in { "delete_queue", "bealine.delete_queue" } -> 2
      [] name \in { "delete_fleet", "bealine.update_fleet",
                    "bealine.delete_fleet" } -> 3
      [] name \in { "delete_farm", "bealine.delete_farm" } -> 4
      [] name \in { "delete_kms_key", "kms.schedule_key_deletion" } -> 5
      [] OTHER -> 0

\* what the manager tracks of the resource a delete method deletes
TrackedOf(m, tracked) ==
    CASE m = "delete_kms_key" -> tracked[1]
      [] m = "delete_farm" -> tracked[2]
      [] m = "delete_queue" -> tracked[3]
      [] m = "delete_fleet" -> tracked[4]

\* the requests that delete additional queues: those made before the
\* second method is invoked
AdditionalRequests ==
    LET second == { k \in 2..Len(events) : IsInvoke(events[k]) }
        until == IF second = {} THEN Len(events)
                 ELSE (CHOOSE k \in second : \A l \in second : k <= l) - 1
    IN  SelectSeq(SubSeq(events, 1, until), IsRequest)

\* C35: cleanup_scaffolding begins with the additional queues, all of
\* whose delete requests come before it invokes another method, and then
\* invokes delete_queue, delete_fleet, delete_farm, delete_kms_key in this
\* order, each at most once, with their requests in the same order; when
\* it invokes delete_farm no queue and no fleet is tracked any more; and
\* when one of these four deletes raises, cleanup_scaffolding raises with
\* it, no later delete is invoked, no request of a later delete is made,
\* and the ids of the later deletes are as they were before the call.
C35_CleanupOrder ==
    method = "cleanup_scaffolding" =>
        /\ InvokedNames[1] = "delete_additional_queues"
        /\ \A k \in 1..(Len(InvokedNames) - 1) :
              Rank(InvokedNames[k]) < Rank(InvokedNames[k + 1])
        /\ \A k \in 1..(Len(RequestsMade) - 1) :
              Rank(RequestsMade[k][2]) <= Rank(RequestsMade[k + 1][2])
        /\ Len(AdditionalRequests) = queueIdx
        /\ inner # "delete_additional_queues" =>
              queueIdx = Len(additional_queues)
        /\ inner = "delete_farm" => (queue_id = None /\ fleet_id = None)
        /\ status = "raised" =>
              /\ at = "idle"
              /\ inner = InvokedNames[Len(InvokedNames)]
              /\ inner \in { "delete_queue", "delete_fleet", "delete_farm",
                             "delete_kms_key" }
              /\ \A m \in { "delete_fleet", "delete_farm",
                            "delete_kms_key" } :
                    Rank(m) > Rank(inner) =>
                        /\ TimesInvoked(m) = 0
                        /\ \A k \in 1..Len(RequestsMade) :
                              Rank(RequestsMade[k][2]) # Rank(m)
                        /\ TrackedOf(m, trackedVars) = TrackedOf(m, before)

\* cleanup_scaffolding stopped at a delete_queue that raised, after it had
\* asked for the delete of an additional queue, with fleet, farm and key
\* still tracked
C35_Witness ==
    /\ method = "cleanup_scaffolding" /\ status = "raised"
    /\ inner = "delete_queue" /\ managerError = "ClientError"
    /\ Len(AdditionalRequests) >= 1
    /\ fleet_id # None /\ farm_id # None /\ kms_key_metadata # None

\* one delete request for every recorded additional queue, in the order
\* of recording
ExpectedAdditional ==
    [ k \in 1..Len(additional_queues) |->
        Request("bealine.delete_queue",
                << <<"farmId", additional_queues[k].farmId>>,
                   <<"queueId", additional_queues[k].queueId>> >>) ]

\* the delete of an additional queue raised and was printed
IsPrint(e) == e[1] = "print"
DeletesFailed == Len(SelectSeq(events, IsPrint))

\* C36: delete_additional_queues, called by the caller or by
\* cleanup_scaffolding, asks for the delete of the recorded additional
\* queues one by one in the order of recording; it never raises; and once
\* it is over it has asked exactly once for every recorded queue, however
\* many of the deletes raised.
C36_AdditionalQueuesAllAttempted ==
    method \in { "delete_additional_queues", "cleanup_scaffolding" } =>
        /\ IsPrefix(AdditionalRequests, ExpectedAdditional)
        /\ DeletesFailed <= Len(AdditionalRequests)
        /\ inner = "delete_additional_queues" => status # "raised"
        /\ (method = "delete_additional_queues" /\ at = "idle") =>
              /\ status = "returned"
              /\ RequestsMade = ExpectedAdditional
        /\ inner # "delete_additional_queues" =>
              AdditionalRequests = ExpectedAdditional

\* delete_additional_queues returned after the delete of the first of two
\* recorded queues raised and the second was asked for all the same
C36_Witness ==
    /\ method = "delete_additional_queues" /\ status = "returned"
    /\ Len(additional_queues) = 2
    /\ Len(events) >= 4
    /\ IsPrint(events[3])
    /\ RequestsMade = ExpectedAdditional

(* ------------------ checked properties: BealineClient ------------------- *)

\* the items of a dict, without their order
Items(d) == { d[j] : j \in 1..Len(d) }

\* the call of the shim has ended, by a return or by an exception
ShimEnded == shimAt = "idle" /\ shimStatus # "none"

\* the service model has a name member and no displayName member
ModelWantsName == "name" \in members /\ "displayName" \notin members

\* the arguments of the caller with displayName renamed to name
WithName ==
    { item \in Items(kwargs) : item[1] \notin { "displayName", "name" } }
        \cup { <<"name", item[2]>> :
                   item \in { it \in Items(kwargs) : it[1] = "displayName" } }

\* the arguments the underlying client is to be called with
Expected == IF ModelWantsName THEN WithName ELSE Items(kwargs)

\* the one call of the underlying client was of the method called, with the
\* arguments renamed iff the model wants name
CalledOnceAsExpected ==
    /\ Len(real_calls) = 1
    /\ real_calls[1][1] = shimMethod
    /\ Items(real_calls[1][2]) = Expected

C33_FleetAndQueueRename ==
    ( /\ shimMethod \in { "create_fleet", "create_queue" }
      /\ ShimEnded
      /\ "displayName" \in Keys(kwargs) )
        => CalledOnceAsExpected

====
